---- MODULE Spec2Model ----
(***************************************************************************)
(* A model of the Musifyyy bot: the multi-platform search aggregator       *)
(* (core/search.py), the per-user result cache (utils/helpers.py), the     *)
(* analytics counters (core/analytics.py) and the button / search / inline *)
(* handlers (handlers/*.py and the monolithic app.py).                     *)
(*                                                                         *)
(* Strings of the program are TLA+ strings.  A Python value that the code  *)
(* only tests for truthiness (a URL, an id, a duration) is modelled with   *)
(* its falsy values collapsed: "" for None / "" and 0 for None / 0.        *)
(***************************************************************************)
EXTENDS Integers, Sequences, FiniteSets, TLC

VARIABLES
    \* ---- one call of MusicSearchEngine.search ----
    n,              \* the desired count passed to search
    sc_info,        \* what ydl.extract_info does for the scsearch query
    yt_info,        \* what ydl.extract_info does for the ytsearch query
    pc,             \* "call" before search runs, "returned" after
    sc_accepted,    \* indices of the raw SoundCloud entries that were accepted
    yt_accepted,    \* indices of the raw YouTube entries that were accepted
    sc_queries,     \* counts requested from SoundCloud, in call order
    yt_queries,     \* counts requested from YouTube, in call order
    returned,       \* the list search returned
    raised          \* TRUE when search raised instead of returning

search_vars == <<n, sc_info, yt_info, pc, sc_accepted, yt_accepted,
                 sc_queries, yt_queries, returned, raised>>

VARIABLES
    \* ---- the running bot ----
    program,              \* the entry point that runs: "handlers" for the
                          \* handlers/*.py modules, "app" for app.py
    search_cache,         \* SearchCache._cache / app.search_cache
    inline_result_cache,  \* InlineResultCache._cache / app.inline_result_cache
    analytics,            \* the Analytics object / app.analytics
    user_db,              \* UserDatabase._users
    disk,                 \* the downloaded files that exist
    events,               \* inbound events handled so far (also the clock)
    horizon,              \* how many inbound events the run handles
    \* ---- observations ----
    store_count,          \* per user, how many searches stored a result list
    menus,                \* the button menus rendered so far
    last_store,           \* per user, the result list of the latest store
    uses,                 \* per inline result id, the runs that read its entry
    last                  \* what the handler of the last event did

bot_vars == <<program, search_cache, inline_result_cache, analytics, user_db,
              disk, events, horizon, store_count, menus, last_store, uses,
              last>>

VARIABLES
    \* ---- calls of one AudioDownloader method ----
    unit_in,        \* what the method meets: arguments and tool outcomes
    file_size,      \* size of the file at file_path, Absent without one
    temp_files,     \* bitrates whose '<base>_<bitrate><ext>' file exists
    calls           \* what each call so far did and returned

unit_vars == <<unit_in, file_size, temp_files, calls>>

VARIABLES
    \* ---- handlers suspended at an await ----
    concurrent,     \* TRUE when updates are handled concurrently
    tasks           \* the handler runs begun, each with its position

task_vars == <<concurrent, tasks>>

VARIABLES
    \* ---- configuration ----
    ADMIN_USER_IDS  \* the administrator allow-list the handlers import

config_vars == <<ADMIN_USER_IDS>>

vars == <<search_vars, bot_vars, unit_vars, task_vars, config_vars>>

-----------------------------------------------------------------------------
(* Bounds of the model *)

MaxN == 3
MaxScEntries == 2
MaxYtEntries == 2
MaxUsers == 2
MaxEvents == 2
MaxDeepEvents == 3
MaxEncodeSizes == 3
MaxCalls == 2
MaxAlbumEntries == 3
MaxTasks == 2
MaxResults == 5
MaxPageSize == 3
MaxAdminEvents == 3

-----------------------------------------------------------------------------
(* Raw platform entries: the dictionaries yt-dlp hands back *)

ScEmoji == "[sc]"
YtEmoji == "[yt]"

Entry(present, has_title, title, url, webpage_url, id, duration) ==
    [present |-> present, has_title |-> has_title, title |-> title,
     url |-> url, webpage_url |-> webpage_url, id |-> id,
     duration |-> duration]

E_none    == Entry(FALSE, FALSE, "", "", "", "", 0)
E_notitle == Entry(TRUE, FALSE, "", "http://p/1", "", "", 0)
E_empty   == Entry(TRUE, TRUE, "", "http://p/2", "", "", 0)
E_nourl   == Entry(TRUE, TRUE, "a", "", "", "", 65)
E_a       == Entry(TRUE, TRUE, "a", "http://p/a", "", "", 65)
E_b       == Entry(TRUE, TRUE, "b", "", "", "idb", 0)

RawEntries == {E_none, E_notitle, E_empty, E_nourl, E_a, E_b}

SeqsUpTo(S, k) == UNION {[1..m -> S] : m \in 0..k}

Info(kind, entries) == [kind |-> kind, entries |-> entries]

\* extract_info raises, returns None, returns a dict without "entries",
\* or returns a dict with a list of entries.
RawInfos(k) ==
    {Info("raise", <<>>), Info("none", <<>>), Info("no_entries", <<>>)}
    \cup {Info("entries", es) : es \in SeqsUpTo(RawEntries, k)}

-----------------------------------------------------------------------------
(* core/search.py *)

Pad2(s) == IF s < 10 THEN "0" \o ToString(s) ELSE ToString(s)

_format_title(title, duration, emoji) ==
    IF duration # 0
    THEN emoji \o " " \o title \o " (" \o ToString(duration \div 60)
               \o ":" \o Pad2(duration % 60) \o ")"
    ELSE emoji \o " " \o title

\* entry.get("title", "Unknown title")
EntryTitle(e) == IF e.has_title THEN e.title ELSE "Unknown title"

\* entry.get("url") or entry.get("webpage_url") or entry.get("id")
EntryUrl(e) ==
    IF e.url # "" THEN e.url
    ELSE IF e.webpage_url # "" THEN e.webpage_url
    ELSE e.id

HttpUrls == {"http://p/1", "http://p/2", "http://p/a"}

\* if url and not url.startswith("http"): url = watch-URL of the id
YoutubeUrl(e) ==
    LET url == EntryUrl(e) IN
    IF url # "" /\ url \notin HttpUrls
    THEN "https://www.youtube.com/watch?v=" \o url
    ELSE url

\* if not entry: continue ... if url and title != "Unknown title"
Accepts(e) ==
    /\ e.present
    /\ EntryUrl(e) # ""
    /\ EntryTitle(e) # "Unknown title"

RECURSIVE AcceptedFrom(_, _)
\* the indices >= i of the entries the loop appends, in loop order
AcceptedFrom(entries, i) ==
    IF i > Len(entries) THEN <<>>
    ELSE IF Accepts(entries[i])
         THEN <<i>> \o AcceptedFrom(entries, i + 1)
         ELSE AcceptedFrom(entries, i + 1)

\* if info and "entries" in info: for entry in info["entries"]
AcceptedIndices(info) ==
    IF info.kind = "entries" THEN AcceptedFrom(info.entries, 1) ELSE <<>>

ScResult(e) ==
    <<_format_title(EntryTitle(e), e.duration, ScEmoji), EntryUrl(e),
      "soundcloud">>

YtResult(e) ==
    <<_format_title(EntryTitle(e), e.duration, YtEmoji), YoutubeUrl(e),
      "youtube">>

\* One platform search: the accepted indices, the result tuples, and whether
\* an exception left the function (the except clause swallows every one).
_search_soundcloud_uncaught(info) ==
    LET idx == AcceptedIndices(info) IN
    [accepted |-> idx,
     results  |-> [k \in 1..Len(idx) |-> ScResult(info.entries[idx[k]])],
     raised   |-> info.kind = "raise"]

_search_soundcloud(info) ==
    LET idx == AcceptedIndices(info) IN
    [accepted |-> idx,
     results  |-> [k \in 1..Len(idx) |-> ScResult(info.entries[idx[k]])],
     raised   |-> FALSE]

_search_youtube(info) ==
    LET idx == AcceptedIndices(info) IN
    [accepted |-> idx,
     results  |-> [k \in 1..Len(idx) |-> YtResult(info.entries[idx[k]])],
     raised   |-> FALSE]

\* all_results.extend(youtube_results), after the SoundCloud results
CombineYoutubeFirst(primary, secondary) == secondary \o primary

Combine(primary, secondary) == primary \o secondary

TakeUncut(s, k) == s

\* all_results[:n] for n >= 0
Take(s, k) == SubSeq(s, 1, IF k < Len(s) THEN k ELSE Len(s))

RemainingFullCount(nn, all_results) == nn

\* remaining = n - len(all_results)
Remaining(nn, all_results) == nn - Len(all_results)

EnoughFromPrimaryStrict(nn, all_results) == Len(all_results) > nn

\* if len(all_results) >= n: return all_results[:n]
EnoughFromPrimary(nn, all_results) == Len(all_results) >= nn

\* MusicSearchEngine.search: everything one call does and returns
search(nn, sc, yt) ==
    LET s == _search_soundcloud(sc) IN
    IF s.raised
    THEN [results |-> <<>>, raised |-> TRUE, sc_accepted |-> <<>>,
          yt_accepted |-> <<>>, sc_queries |-> <<nn>>, yt_queries |-> <<>>]
    ELSE IF EnoughFromPrimary(nn, s.results)
    THEN [results |-> Take(s.results, nn), raised |-> FALSE,
          sc_accepted |-> s.accepted, yt_accepted |-> <<>>,
          sc_queries |-> <<nn>>, yt_queries |-> <<>>]
    ELSE LET remaining == Remaining(nn, s.results)
             y == _search_youtube(yt)
         IN  IF y.raised
             THEN [results |-> <<>>, raised |-> TRUE,
                   sc_accepted |-> s.accepted, yt_accepted |-> <<>>,
                   sc_queries |-> <<nn>>, yt_queries |-> <<remaining>>]
             ELSE [results |-> Take(Combine(s.results, y.results), nn),
                   raised |-> FALSE,
                   sc_accepted |-> s.accepted, yt_accepted |-> y.accepted,
                   sc_queries |-> <<nn>>, yt_queries |-> <<remaining>>]

-----------------------------------------------------------------------------
(* Text: message texts, queries and button payloads are sequences of       *)
(* one-character strings, so that prefixes, splitting and int() are real   *)

Str_page_     == <<"p", "a", "g", "e", "_">>
Str_page_info == <<"p", "a", "g", "e", "_", "i", "n", "f", "o">>
Str_download_ == <<"d", "o", "w", "n", "l", "o", "a", "d", "_">>
Str_album_    == <<"a", "l", "b", "u", "m", "_">>
Str_hello     == <<"h", "e", "l", "l", "o">>

DigitChars == <<"0", "1", "2", "3", "4", "5", "6", "7", "8", "9">>

IsDigit(c) == \E d \in 1..10 : DigitChars[d] = c

DigitValue(c) == (CHOOSE d \in 1..10 : DigitChars[d] = c) - 1

\* str.startswith
StartsWith(s, prefix) ==
    Len(s) >= Len(prefix) /\ SubSeq(s, 1, Len(prefix)) = prefix

RECURSIVE Split(_, _)
\* str.split(sep) for a one-character separator
Split(s, sep) ==
    IF \A i \in 1..Len(s) : s[i] # sep THEN <<s>>
    ELSE LET i == CHOOSE k \in 1..Len(s) :
                      s[k] = sep /\ \A j \in 1..(k - 1) : s[j] # sep
         IN  <<SubSeq(s, 1, i - 1)>> \o Split(SubSeq(s, i + 1, Len(s)), sep)

AllDigits(s) == Len(s) >= 1 /\ \A i \in 1..Len(s) : IsDigit(s[i])

\* int(s) succeeds: an optional sign and at least one digit (the whitespace
\* and digit-group underscores int() also takes are not in any payload here)
IsInt(s) ==
    IF Len(s) >= 1 /\ s[1] \in {"-", "+"} THEN AllDigits(Tail(s))
    ELSE AllDigits(s)

RECURSIVE DigitsValue(_)
DigitsValue(s) ==
    IF s = <<>> THEN 0
    ELSE 10 * DigitsValue(SubSeq(s, 1, Len(s) - 1)) + DigitValue(s[Len(s)])

\* int(s) where it succeeds
ParseInt(s) ==
    IF s[1] = "-" THEN 0 - DigitsValue(Tail(s))
    ELSE IF s[1] = "+" THEN DigitsValue(Tail(s))
    ELSE DigitsValue(s)

RECURSIVE NatChars(_)
NatChars(i) ==
    IF i < 10 THEN <<DigitChars[i + 1]>>
    ELSE NatChars(i \div 10) \o <<DigitChars[(i % 10) + 1]>>

\* f"{i}"
IntChars(i) == IF i < 0 THEN <<"-">> \o NatChars(0 - i) ELSE NatChars(i)

LowerChar(c) == IF c = "D" THEN "d" ELSE IF c = "P" THEN "p" ELSE c

\* str.lower on the letters the queries here use
Lower(s) == [i \in 1..Len(s) |-> LowerChar(s[i])]

-----------------------------------------------------------------------------
(* Python list indexing and tuple unpacking *)

\* results[i] does not raise IndexError
Indexable(results, i) == 0 - Len(results) <= i /\ i < Len(results)

\* results[i], negative indices counting from the end
PyIndex(results, i) ==
    IF i >= 0 THEN results[i + 1] ELSE results[Len(results) + i + 1]

-----------------------------------------------------------------------------
(* config/settings.py values the handlers import *)

SEARCH_RESULTS_TOTAL == 30
RESULTS_PER_PAGE == 5
SEARCH_RESULTS == 6
InlineSearchCount == 10

-----------------------------------------------------------------------------
(* utils/helpers.py, core/analytics.py, utils/database.py *)

Users == 1..MaxUsers

\* SearchCache.has
CacheHas(user_id) == user_id \in DOMAIN search_cache

CacheStoreMerging(cache, user_id, results) ==
    IF user_id \in DOMAIN cache
    THEN [cache EXCEPT ![user_id] = @ \o results]
    ELSE cache @@ (user_id :> results)

\* SearchCache.store: self._cache[user_id] = results
CacheStore(cache, user_id, results) ==
    [u \in DOMAIN cache \cup {user_id} |->
        IF u = user_id THEN results ELSE cache[u]]

\* defaultdict(int)[key] += 1
Incremented(counts, key) ==
    IF key \in DOMAIN counts THEN [counts EXCEPT ![key] = @ + 1]
    ELSE counts @@ (key :> 1)

track_search_forgetting(an, query) ==
    [an EXCEPT !.total_searches = @ + 1,
               !.popular_queries = (Lower(query) :> 1)]

\* Analytics.track_search
track_search(an, query) ==
    [an EXCEPT !.total_searches = @ + 1,
               !.popular_queries = Incremented(@, Lower(query))]

track_download_untallied(an, platform) ==
    [an EXCEPT !.platform_usage = Incremented(@, platform)]

\* Analytics.track_download
track_download(an, platform) ==
    [an EXCEPT !.total_downloads = @ + 1,
               !.platform_usage = Incremented(@, platform)]

\* Analytics.track_inline_selection
track_inline_selection(an, query) ==
    [an EXCEPT !.inline_selections = Incremented(@, Lower(query))]

\* UserDatabase.add_user (the username and first name do not change here)
add_user(db, user_id, now) ==
    IF user_id \notin DOMAIN db
    THEN db @@ (user_id :> [joined_at |-> now, last_active |-> now])
    ELSE [db EXCEPT ![user_id].last_active = now]

-----------------------------------------------------------------------------
(* What the environment does during a handler: the downloader's result     *)
(* and whether the transport accepts the audio and the later status edit   *)

telegram_limit_bytes == 50 * 1000000

\* sizes of a downloaded file: small, between the two limits the code
\* uses, and above both
FileSizes == {1000000, 51000000, 60000000}

\* size 0 stands for the failure signal (None, None, None)
DownloadFailed == 0

\* size: of the downloaded file; send_ok: the transport takes the audio;
\* edit_ok: the status edit that follows a successful send goes through
\* (every other text message or edit of a run is taken to go through)
Env(size, send_ok, edit_ok) ==
    [size |-> size, send_ok |-> send_ok, edit_ok |-> edit_ok]

NoEnv == Env(DownloadFailed, TRUE, TRUE)

\* the environments that differ for some handler: nothing is sent after a
\* failed download and no status edit follows a failed send
Envs == {NoEnv}
        \cup {Env(size, FALSE, TRUE) : size \in FileSizes}
        \cup {Env(size, TRUE, edit_ok) : size \in FileSizes,
                                        edit_ok \in BOOLEAN}

\* the environments to go through for a handler run: all of them when the
\* run calls the downloader, one when it does not
EnvsFor(run) == IF run.downloads = <<>> THEN {NoEnv} ELSE Envs

\* the k-th file the downloader leaves on disk for the event being handled
FileOf(k) == 10 * (events + 1) + k

-----------------------------------------------------------------------------
(* The record of one handler run *)

Msg_track_not_found == "Track not found. Please search again."
Msg_album_not_found == "Album not found. Please search again."
Msg_invalid         == "Invalid selection. Please search again."
Msg_expired         == "Search expired. Please search again."

Run(message, error_logged, exception, downloads, handed, an, dk) ==
    [message      |-> message,       \* the text the user is left with
     error_logged |-> error_logged,  \* logger.error was called
     exception    |-> exception,     \* an exception left the handler
     downloads    |-> downloads,     \* Downloader invocations: url, platform
     handed       |-> handed,        \* sizes of the files given to transport
     analytics    |-> an,
     disk         |-> dk]

Quiet(message) == Run(message, FALSE, FALSE, <<>>, <<>>, analytics, disk)

Logged(message) == Run(message, TRUE, FALSE, <<>>, <<>>, analytics, disk)

Escaped == Run("", FALSE, TRUE, <<>>, <<>>, analytics, disk)

-----------------------------------------------------------------------------
(* _show_results_page: commands.py unpacks three names from a result,      *)
(* callbacks.py four (the fourth being content_type)                       *)

\* total_pages = (total_results + RESULTS_PER_PAGE - 1) // RESULTS_PER_PAGE
TotalPages(total_results, per_page) ==
    (total_results + per_page - 1) \div per_page

\* if page > 0
HasPrevious(page) == page > 0

HasNextLoose(page, total_pages) == page < total_pages

\* if page < total_pages - 1
HasNext(page, total_pages) == page < total_pages - 1

\* the keyboard under the message: the payloads of the result buttons in
\* order, the payloads of the navigation row, and the two numbers of the
\* "page X/Y" indicator
Menu(raised_as, tracks, nav, indicator) ==
    [raised |-> raised_as, tracks |-> tracks, nav |-> nav,
     indicator |-> indicator]

\* callback_data of the button of results[i]
SelectPayload(item, i, names) ==
    IF names = 4 /\ item[4] = "album" THEN Str_album_ \o IntChars(i)
    ELSE Str_download_ \o IntChars(i)

\* _show_results_page(message, results, page) with RESULTS_PER_PAGE =
\* per_page: the keyboard of the edited message, or the exception that the
\* first result of the slice that cannot be indexed or unpacked raises
ShowResultsPage(results, page, per_page, names) ==
    LET total_results == Len(results)
        total_pages == TotalPages(total_results, per_page)
        start_idx == page * per_page
        end_idx == IF start_idx + per_page < total_results
                   THEN start_idx + per_page ELSE total_results
        slice == [k \in 1..(end_idx - start_idx) |-> start_idx + k - 1]
        failing == {k \in DOMAIN slice :
                       \/ ~Indexable(results, slice[k])
                       \/ Len(PyIndex(results, slice[k])) # names}
        first == CHOOSE k \in failing : \A j \in failing : k <= j
    IN  IF failing # {}
        THEN Menu(IF ~Indexable(results, slice[first]) THEN "IndexError"
                  ELSE "ValueError", <<>>, <<>>, <<>>)
        ELSE Menu("",
                  [k \in DOMAIN slice |->
                      SelectPayload(PyIndex(results, slice[k]), slice[k],
                                    names)],
                  (IF HasPrevious(page)
                   THEN <<Str_page_ \o IntChars(page - 1)>> ELSE <<>>)
                  \o <<Str_page_info>>
                  \o (IF HasNext(page, total_pages)
                      THEN <<Str_page_ \o IntChars(page + 1)>> ELSE <<>>),
                  <<page + 1, total_pages>>)

\* the payloads of all the buttons of a keyboard
Payloads(menu) ==
    {menu.tracks[k] : k \in DOMAIN menu.tracks}
    \cup {menu.nav[k] : k \in DOMAIN menu.nav}

-----------------------------------------------------------------------------
(* handlers/callbacks.py *)

IndexBeyondEnd(track_index, length) == track_index > length

\* if track_index >= len(results)
IndexOutOfRange(track_index, length) == track_index >= length

\* _download_single_track from the download on: lines 99-151.  A file that
\* was sent, or not sent for its size, is cleaned up; a failed send or a
\* failed status edit after the send leaves it on disk.
SingleTrackDelivery(item, env) ==
    LET url == item[2]
        platform == item[3]
        an == track_download(analytics, platform)
        dl == <<[url |-> url, platform |-> platform]>>
    IN  IF env.size = DownloadFailed
        THEN Run("Couldn't download", TRUE, FALSE, dl, <<>>, an, disk)
        ELSE IF env.size > 50 * 1024 * 1024
        THEN Run("File too large to send", FALSE, FALSE, dl, <<>>, an, disk)
        ELSE IF ~env.send_ok \/ ~env.edit_ok
        THEN Run("Downloaded but couldn't send", TRUE, FALSE, dl,
                 <<env.size>>, an, disk \cup {FileOf(0)})
        ELSE Run("Sent", FALSE, FALSE, dl, <<env.size>>, an, disk)

\* _download_single_track
_download_single_track(user_id, track_index, env) ==
    IF ~CacheHas(user_id) THEN Quiet(Msg_track_not_found)
    ELSE LET results == search_cache[user_id] IN
         IF IndexOutOfRange(track_index, Len(results))
         THEN Quiet(Msg_track_not_found)
         ELSE IF ~Indexable(results, track_index)
         THEN Escaped                      \* IndexError is not caught
         ELSE LET item == PyIndex(results, track_index) IN
              IF Len(item) # 4
              THEN Quiet(Msg_invalid)      \* ValueError of the unpacking
              ELSE SingleTrackDelivery(item, env)

RECURSIVE AlbumLoop(_, _, _, _, _, _, _)
\* the for loop of _download_album from track idx on: successful and failed
\* counts, the sizes handed to the transport and the files left on disk
AlbumLoop(tracks, idx, envs, successful, failed, handed, left) ==
    IF idx > Len(tracks)
    THEN [successful |-> successful, failed |-> failed, handed |-> handed,
          left |-> left]
    ELSE IF tracks[idx] = DownloadFailed
    THEN AlbumLoop(tracks, idx + 1, envs, successful, failed + 1, handed, left)
    ELSE IF ~envs[idx].send_ok
    THEN AlbumLoop(tracks, idx + 1, envs, successful, failed + 1,
                   Append(handed, tracks[idx]), left \cup {FileOf(idx)})
    ELSE IF idx % 3 = 0 /\ ~envs[idx].edit_ok
    THEN AlbumLoop(tracks, idx + 1, envs, successful + 1, failed + 1,
                   Append(handed, tracks[idx]), left \cup {FileOf(idx)})
    ELSE AlbumLoop(tracks, idx + 1, envs, successful + 1, failed,
                   Append(handed, tracks[idx]), left)

\* _download_album; tracks is what download_album returns, a size per track
\* with DownloadFailed for (None, None, None)
_download_album(user_id, track_index, tracks, env) ==
    IF ~CacheHas(user_id) THEN Quiet(Msg_album_not_found)
    ELSE LET results == search_cache[user_id] IN
         IF IndexOutOfRange(track_index, Len(results))
         THEN Quiet(Msg_album_not_found)
         ELSE IF ~Indexable(results, track_index)
         THEN Logged("Album download failed")    \* except Exception
         ELSE LET item == PyIndex(results, track_index) IN
              IF Len(item) # 4
              THEN Logged("Album download failed")
              ELSE LET an == track_download(analytics, item[3])
                       dl == <<[url |-> item[2], platform |-> item[3]]>>
                       loop == AlbumLoop(tracks, 1,
                                        [k \in 1..Len(tracks) |-> env],
                                        0, 0, <<>>, {})
                   IN  IF tracks = <<>>
                       THEN Run("Couldn't download album", FALSE, FALSE, dl,
                                <<>>, an, disk)
                       ELSE Run("Album Download Complete",
                                loop.left # {}, FALSE, dl,
                                loop.handed, an, disk \cup loop.left)

\* callbacks._show_results_page(message, results, page): "menu" when the
\* message is edited, else the exception the unpacking raises
CallbackPageRender(results, page) ==
    LET menu == ShowResultsPage(results, page, RESULTS_PER_PAGE, 4) IN
    IF menu.raised = "" THEN "menu" ELSE menu.raised

\* button_callback, the "page_" branch
PageBranch(user_id, callback_data) ==
    IF callback_data = Str_page_info THEN Quiet("")
    ELSE LET token == Split(callback_data, "_")[2] IN
         IF ~IsInt(token) THEN Logged("")        \* Page navigation error
         ELSE IF ~CacheHas(user_id) THEN Quiet(Msg_expired)
         ELSE IF CallbackPageRender(search_cache[user_id], ParseInt(token))
                    = "menu"
              THEN Quiet("Choose a track to download:")
              ELSE Logged("")

\* button_callback, the "album_" branch
AlbumBranch(user_id, callback_data, tracks, env) ==
    LET token == Split(callback_data, "_")[2] IN
    IF ~IsInt(token) THEN Quiet(Msg_invalid)
    ELSE _download_album(user_id, ParseInt(token), tracks, env)

\* button_callback, the "download_" branch and the legacy bare number
TrackBranch(user_id, callback_data, env) ==
    IF StartsWith(callback_data, Str_download_)
    THEN LET token == Split(callback_data, "_")[2] IN
         IF ~IsInt(token) THEN Quiet(Msg_invalid)
         ELSE _download_single_track(user_id, ParseInt(token), env)
    ELSE IF ~IsInt(callback_data) THEN Quiet(Msg_invalid)
         ELSE _download_single_track(user_id, ParseInt(callback_data), env)

-----------------------------------------------------------------------------
(* Inputs of the running bot *)

Str_Daft == <<"D", "a", "f", "t">>
Str_dp   == <<"d", "p">>
Str_cmd  == <<"/", "x">>

\* message and inline-query texts
Texts == {<<>>, Str_cmd, Str_dp, Str_Daft}

\* what the two platforms answer to a search made by a handler
BotScInfos == {Info("raise", <<>>), Info("entries", <<E_a, E_b>>)}

BotYtInfos == {Info("none", <<>>), Info("entries", <<E_b>>)}

\* indices into result lists of up to three results: in range, one past the
\* end, counted from the end, and before the start
SelectionIndices == {0 - 4, 0 - 1} \cup 0..3

PagePayloads ==
    {Str_page_ \o IntChars(p) : p \in (0 - 1)..1}
    \cup {Str_page_info, Str_page_ \o <<"x">>, Str_page_}

AlbumPayloads ==
    {Str_album_ \o IntChars(i) : i \in {0, 3}}
    \cup {Str_album_ \o <<"a", "b", "c">>}

TrackPayloads ==
    {Str_download_ \o IntChars(i) : i \in SelectionIndices}
    \cup {IntChars(i) : i \in SelectionIndices}
    \cup {Str_download_, Str_hello}

\* the payloads named as malformed tokens
MalformedPayloads ==
    {Str_page_ \o <<"x">>, Str_page_, Str_download_,
     Str_album_ \o <<"a", "b", "c">>, Str_hello}

\* the menus of a user that show a button with this payload (0: none, the
\* payload was not taken from a rendered menu)
MenuGens(user_id, data) ==
    {m.gen : m \in {mm \in menus : mm.user = user_id /\ data \in mm.buttons}}
    \cup {0}

\* what a handler run leaves in "last"
Observed(handler, user_id, data, from_gen, run) ==
    [handler           |-> handler,
     user              |-> user_id,
     data              |-> data,
     from_gen          |-> from_gen,
     message           |-> run.message,
     error_logged      |-> run.error_logged,
     exception         |-> run.exception,
     downloads         |-> run.downloads,
     handed            |-> run.handed,
     analytics_changed |-> run.analytics # analytics]

-----------------------------------------------------------------------------
(* handlers/commands.py *)

\* the buttons commands._show_results_page puts under the message
CommandsPageButtons(results, page) ==
    Payloads(ShowResultsPage(results, page, RESULTS_PER_PAGE, 3))

\* query empty or a command: the handler returns at once
IgnoredText(query) == query = <<>> \/ StartsWith(query, <<"/">>)

\* the menu a search that stored results renders for the user
Rendered(user_id, buttons) ==
    [user |-> user_id, gen |-> store_count[user_id] + 1, buttons |-> buttons]

NoResultsNever(results) == FALSE

\* if not results: the "no results" message, and return before the store
NoResults(results) == results = <<>>

\* the number of results the search of a handler run returned
Found(r) == [found |-> Len(r.results)]

\* commands.search
search_message ==
    /\ program = "handlers"
    /\ events < horizon
    /\ \E user_id \in Users, query \in Texts,
          sc \in BotScInfos, yt \in BotYtInfos :
        IF IgnoredText(query)
        THEN /\ last' = Observed("search", user_id, query, 0, Quiet(""))
             /\ UNCHANGED <<search_cache, analytics, user_db, store_count,
                            menus, last_store>>
        ELSE LET r == search(SEARCH_RESULTS_TOTAL, sc, yt)
                 an == track_search(analytics, query)
                 run(message, err) ==
                     Run(message, err, FALSE, <<>>, <<>>, an, disk)
             IN  /\ user_db' = add_user(user_db, user_id, events + 1)
                 /\ analytics' = an
                 /\ IF r.raised
                    THEN /\ last' = Observed("search", user_id, query, 0,
                                             run("Error", TRUE))
                                @@ Found(r)
                         /\ UNCHANGED <<search_cache, store_count, menus,
                                        last_store>>
                    ELSE IF NoResults(r.results)
                    THEN /\ last' = Observed("search", user_id, query, 0,
                                run("No results found on any platform.",
                                    FALSE))
                                @@ Found(r)
                         /\ UNCHANGED <<search_cache, store_count, menus,
                                        last_store>>
                    ELSE /\ search_cache' =
                                CacheStore(search_cache, user_id, r.results)
                         /\ store_count' =
                                [store_count EXCEPT ![user_id] = @ + 1]
                         /\ last_store' =
                                [last_store EXCEPT ![user_id] = r.results]
                         /\ menus' = menus \cup
                                {Rendered(user_id,
                                     CommandsPageButtons(r.results, 0))}
                         /\ last' = Observed("search", user_id, query, 0,
                                run("Choose a track to download:", FALSE))
                                @@ Found(r)
    /\ events' = events + 1
    /\ UNCHANGED <<program, horizon, inline_result_cache, disk, uses,
                   search_vars, config_vars, unit_vars, task_vars>>

-----------------------------------------------------------------------------
(* handlers/callbacks.py: button_callback, one action per branch *)

ButtonPressed(user_id, data, from_gen, run) ==
    /\ last' = Observed("button", user_id, data, from_gen, run)
    /\ analytics' = run.analytics
    /\ disk' = run.disk
    /\ events' = events + 1
    /\ UNCHANGED <<program, horizon, search_cache, inline_result_cache, user_db,
                   store_count, menus, last_store, uses,
                   search_vars, config_vars, unit_vars, task_vars>>

button_callback_page ==
    /\ program = "handlers"
    /\ events < horizon
    /\ \E user_id \in Users, data \in PagePayloads :
       \E from_gen \in MenuGens(user_id, data) :
          ButtonPressed(user_id, data, from_gen, PageBranch(user_id, data))

AlbumTracks == {<<>>, <<1000000>>, <<DownloadFailed, 1000000>>}

button_callback_album ==
    /\ program = "handlers"
    /\ events < horizon
    /\ \E user_id \in Users, data \in AlbumPayloads, tracks \in AlbumTracks :
       \E env \in EnvsFor(AlbumBranch(user_id, data, tracks, NoEnv)),
          from_gen \in MenuGens(user_id, data) :
          ButtonPressed(user_id, data, from_gen,
                        AlbumBranch(user_id, data, tracks, env))

button_callback_track ==
    /\ program = "handlers"
    /\ events < horizon
    /\ \E user_id \in Users, data \in TrackPayloads :
       \E env \in EnvsFor(TrackBranch(user_id, data, NoEnv)),
          from_gen \in MenuGens(user_id, data) :
          ButtonPressed(user_id, data, from_gen,
                        TrackBranch(user_id, data, env))

-----------------------------------------------------------------------------
(* app.py: search and button *)

\* music_search: the same aggregation as MusicSearchEngine.search
music_search(nn, sc, yt) == search(nn, sc, yt)

\* the buttons app.search puts under the message: callback_data=f"{i}"
AppButtons(results) == {IntChars(i) : i \in 0..(Len(results) - 1)}

\* app.search
app_search ==
    /\ program = "app"
    /\ events < horizon
    /\ \E user_id \in Users, q \in Texts,
          sc \in BotScInfos, yt \in BotYtInfos :
        IF IgnoredText(q)
        THEN /\ last' = Observed("search", user_id, q, 0, Quiet(""))
             /\ UNCHANGED <<search_cache, analytics, store_count, menus,
                            last_store>>
        ELSE LET r == music_search(SEARCH_RESULTS, sc, yt)
                 an == track_search(analytics, q)
                 run(message, err) ==
                     Run(message, err, FALSE, <<>>, <<>>, an, disk)
             IN  /\ analytics' = an
                 /\ IF r.raised
                    THEN /\ last' = Observed("search", user_id, q, 0,
                                             run("Error", TRUE))
                                @@ Found(r)
                         /\ UNCHANGED <<search_cache, store_count, menus,
                                        last_store>>
                    ELSE IF NoResults(r.results)
                    THEN /\ last' = Observed("search", user_id, q, 0,
                                run("No results found on any platform.",
                                    FALSE))
                                @@ Found(r)
                         /\ UNCHANGED <<search_cache, store_count, menus,
                                        last_store>>
                    ELSE /\ search_cache' =
                                CacheStore(search_cache, user_id, r.results)
                         /\ store_count' =
                                [store_count EXCEPT ![user_id] = @ + 1]
                         /\ last_store' =
                                [last_store EXCEPT ![user_id] = r.results]
                         /\ menus' = menus \cup
                                {Rendered(user_id, AppButtons(r.results))}
                         /\ last' = Observed("search", user_id, q, 0,
                                run("Choose a track to download:", FALSE))
                                @@ Found(r)
    /\ events' = events + 1
    /\ UNCHANGED <<program, horizon, inline_result_cache, user_db, disk, uses,
                   search_vars, config_vars, unit_vars, task_vars>>

\* app.button from the download on: lines 483-559; no size is looked at
AppDelivery(item, env) ==
    LET url == item[2]
        platform == item[3]
        an == track_download(analytics, platform)
        dl == <<[url |-> url, platform |-> platform]>>
    IN  IF env.size = DownloadFailed
        THEN Run("Couldn't download", TRUE, FALSE, dl, <<>>, an, disk)
        ELSE IF ~env.send_ok \/ ~env.edit_ok
        THEN Run("Downloaded but couldn't send", TRUE, FALSE, dl,
                 <<env.size>>, an, disk \cup {FileOf(0)})
        ELSE Run("Sent", FALSE, FALSE, dl, <<env.size>>, an, disk)

\* app.button
button(user_id, data, env) ==
    IF ~IsInt(data) THEN Quiet(Msg_invalid)
    ELSE LET track_index == ParseInt(data) IN
         IF ~CacheHas(user_id) THEN Quiet(Msg_track_not_found)
         ELSE LET results == search_cache[user_id] IN
              IF IndexOutOfRange(track_index, Len(results))
              THEN Quiet(Msg_track_not_found)
              ELSE IF ~Indexable(results, track_index)
              THEN Escaped                   \* IndexError is not caught
              ELSE LET item == PyIndex(results, track_index) IN
                   IF Len(item) # 3 THEN Quiet(Msg_invalid)
                   ELSE AppDelivery(item, env)

app_button ==
    /\ program = "app"
    /\ events < horizon
    /\ \E user_id \in Users,
          data \in PagePayloads \cup AlbumPayloads \cup TrackPayloads :
       \E env \in EnvsFor(button(user_id, data, NoEnv)),
          from_gen \in MenuGens(user_id, data) :
          ButtonPressed(user_id, data, from_gen, button(user_id, data, env))

-----------------------------------------------------------------------------
(* handlers/inline.py and the inline handlers of app.py *)

\* str(uuid4()): an identifier no earlier result has
InlineId(k) == 10 * (events + 1) + k

TooShortInclusive(query) == query = <<>> \/ Len(query) <= 3

\* if not query or len(query) < 3: return
TooShort(query) == query = <<>> \/ Len(query) < 3

\* inline-query texts: none, two characters, exactly three characters
InlineTexts == {<<>>, <<"d", "p">>, <<"a", "b", "c">>}

\* the for loop of inline_query: one stored entry per result
InlineStored(cache, results, query) ==
    [id \in DOMAIN cache \cup {InlineId(k) : k \in 1..Len(results)} |->
        IF id \in DOMAIN cache THEN cache[id]
        ELSE LET r == results[id - InlineId(0)] IN
             [title |-> r[1], url |-> r[2], platform |-> r[3],
              query |-> query]]

\* InlineResultCache.delete / del inline_result_cache[result_id]
InlineDeleted(cache, result_id) ==
    [id \in DOMAIN cache \ {result_id} |-> cache[id]]

\* inline.inline_query and app.inline_query
InlineQueryRun(handler, user_id, query, sc, yt) ==
    IF TooShort(query)
    THEN /\ last' = Observed(handler, user_id, query, 0, Quiet(""))
                        @@ [searches |-> <<>>]
         /\ UNCHANGED <<analytics, inline_result_cache>>
    ELSE LET r == search(InlineSearchCount, sc, yt)
             an == track_search(analytics, query)
         IN  /\ analytics' = an
             /\ inline_result_cache' =
                    IF r.raised THEN inline_result_cache
                    ELSE InlineStored(inline_result_cache, r.results, query)
             /\ last' = Observed(handler, user_id, query, 0,
                    Run(IF r.results = <<>> THEN "" ELSE "answer",
                        r.raised, FALSE, <<>>, <<>>, an, disk))
                        @@ [searches |-> r.sc_queries \o r.yt_queries]

inline_query ==
    /\ program = "handlers"
    /\ events < horizon
    /\ \E user_id \in Users, query \in InlineTexts,
          sc \in BotScInfos, yt \in BotYtInfos :
          InlineQueryRun("inline_query", user_id, query, sc, yt)
    /\ events' = events + 1
    /\ UNCHANGED <<program, horizon, search_cache, user_db, disk, store_count, menus,
                   last_store, uses, search_vars, config_vars, unit_vars, task_vars>>

app_inline_query ==
    /\ program = "app"
    /\ events < horizon
    /\ \E user_id \in Users, query \in InlineTexts,
          sc \in BotScInfos, yt \in BotYtInfos :
          InlineQueryRun("inline_query", user_id, query, sc, yt)
    /\ events' = events + 1
    /\ UNCHANGED <<program, horizon, search_cache, user_db, disk, store_count, menus,
                   last_store, uses, search_vars, config_vars, unit_vars, task_vars>>

\* inline.chosen_inline_result: the run and the cache it leaves
ChosenRun(result_id, query, env) ==
    IF result_id \notin DOMAIN inline_result_cache
    THEN [run |-> Quiet(""), cache |-> inline_result_cache]
    ELSE LET info == inline_result_cache[result_id]
             an == track_download(track_inline_selection(analytics, query),
                                  info.platform)
             dl == <<[url |-> info.url, platform |-> info.platform]>>
         IN  IF env.size = DownloadFailed
             THEN [run |-> Run("Download failed", TRUE, FALSE, dl, <<>>, an,
                               disk),
                   cache |-> inline_result_cache]
             ELSE IF ~env.send_ok
             THEN [run |-> Run("Download failed", TRUE, FALSE, dl,
                               <<env.size>>, an, disk \cup {FileOf(0)}),
                   cache |-> inline_result_cache]
             ELSE [run |-> Run("Downloaded", ~env.edit_ok, FALSE, dl,
                               <<env.size>>, an, disk),
                   cache |-> InlineDeleted(inline_result_cache, result_id)]

\* app.chosen_inline_result: the run and the cache it leaves
AppChosenRun(result_id, query, env) ==
    LET selected == track_inline_selection(analytics, query) IN
    IF result_id \notin DOMAIN inline_result_cache
    THEN [run |-> Run("", FALSE, FALSE, <<>>, <<>>, selected, disk),
          cache |-> inline_result_cache]
    ELSE LET info == inline_result_cache[result_id]
             an == track_download(selected, info.platform)
             dl == <<[url |-> info.url, platform |-> info.platform]>>
         IN  IF env.size = DownloadFailed
             THEN [run |-> Run("Download failed", TRUE, FALSE, dl, <<>>, an,
                               disk),
                   cache |-> inline_result_cache]
             ELSE [run |-> Run("Downloaded", ~env.send_ok, FALSE, dl,
                               <<env.size>>, an, disk),
                   cache |-> InlineDeleted(inline_result_cache, result_id)]

ChosenQueries == {Str_Daft, Str_dp}

\* 0 is an identifier that was never stored
ChosenIds == DOMAIN inline_result_cache \cup {0}

Chosen(user_id, result_id, r) ==
    /\ last' = Observed("chosen_inline_result", user_id, IntChars(result_id),
                        0, r.run)
    /\ analytics' = r.run.analytics
    /\ disk' = r.run.disk
    /\ inline_result_cache' = r.cache
    /\ uses' = IF r.run.downloads = <<>> THEN uses
               ELSE Incremented(uses, result_id)
    /\ events' = events + 1
    /\ UNCHANGED <<program, horizon, search_cache, user_db, store_count, menus,
                   last_store, search_vars, config_vars, unit_vars, task_vars>>

chosen_inline_result ==
    /\ program = "handlers"
    /\ events < horizon
    /\ \E user_id \in Users, result_id \in ChosenIds,
          query \in ChosenQueries :
       \E env \in EnvsFor(ChosenRun(result_id, query, NoEnv).run) :
          Chosen(user_id, result_id, ChosenRun(result_id, query, env))

app_chosen_inline_result ==
    /\ program = "app"
    /\ events < horizon
    /\ \E user_id \in Users, result_id \in ChosenIds,
          query \in ChosenQueries :
       \E env \in EnvsFor(AppChosenRun(result_id, query, NoEnv).run) :
          Chosen(user_id, result_id, AppChosenRun(result_id, query, env))

-----------------------------------------------------------------------------
(* The running bot *)

NoRun == Run("", FALSE, FALSE, <<>>, <<>>, analytics, disk)

BotStart ==
    /\ search_cache = <<>>
    /\ inline_result_cache = <<>>
    /\ analytics = [total_searches |-> 0, total_downloads |-> 0,
                    popular_queries |-> <<>>, platform_usage |-> <<>>,
                    inline_selections |-> <<>>]
    /\ user_db = <<>>
    /\ disk = {}
    /\ events = 0
    /\ store_count = [u \in Users |-> 0]
    /\ menus = {}
    /\ last_store = [u \in Users |-> <<>>]
    /\ uses = <<>>
    /\ last = Observed("none", 0, <<>>, 0, NoRun)

SearchIdle ==
    /\ n = 0
    /\ sc_info = Info("none", <<>>)
    /\ yt_info = Info("none", <<>>)
    /\ pc = "idle"
    /\ sc_accepted = <<>>
    /\ yt_accepted = <<>>
    /\ sc_queries = <<>>
    /\ yt_queries = <<>>
    /\ returned = <<>>
    /\ raised = FALSE

\* updates are handled one after the other
Sequential ==
    /\ concurrent = FALSE
    /\ tasks = <<>>

\* an empty allow-list: no user is an administrator
NoAdmins == ADMIN_USER_IDS = {}

UnitIdle ==
    /\ unit_in = <<>>
    /\ file_size = 0
    /\ temp_files = {}
    /\ calls = <<>>

Init ==
    /\ program \in {"handlers", "app"}
    /\ horizon = MaxEvents
    /\ BotStart
    /\ NoAdmins
    /\ SearchIdle
    /\ UnitIdle
    /\ Sequential

\* the same bot followed for one more event
InitDeep ==
    /\ program \in {"handlers", "app"}
    /\ horizon = MaxDeepEvents
    /\ BotStart
    /\ NoAdmins
    /\ SearchIdle
    /\ UnitIdle
    /\ Sequential

Next ==
    \/ search_message
    \/ button_callback_page
    \/ button_callback_album
    \/ button_callback_track
    \/ inline_query
    \/ chosen_inline_result
    \/ app_search
    \/ app_button
    \/ app_inline_query
    \/ app_chosen_inline_result

Spec == Init /\ [][Next]_vars

SpecDeep == InitDeep /\ [][Next]_vars

-----------------------------------------------------------------------------
(* handlers/commands.py: start, broadcast and users; utils/database.py *)

\* UserDatabase.remove_user
remove_user(db, user_id) == [u \in DOMAIN db \ {user_id} |-> db[u]]

\* UserDatabase.get_all_user_ids: list(self._users.keys()), the keys in the
\* order of their insertion, which is the order of joined_at
get_all_user_ids(db) ==
    CHOOSE ids \in [1..Cardinality(DOMAIN db) -> DOMAIN db] :
        \A i, j \in DOMAIN ids :
            i < j => db[ids[i]].joined_at < db[ids[j]].joined_at

\* str(e) of what send_message raises, word by word; <<>> when the message
\* is sent
Sent == <<>>

SendErrors ==
    {<<"Forbidden:", "bot", "was", "blocked", "by", "the", "user">>,
     <<"Forbidden:", "user", "is", "deactivated">>,
     <<"Chat", "not", "found">>}

SendOutcomes == {Sent} \cup SendErrors

LowerWord(w) ==
    IF w = "Forbidden:" THEN "forbidden:" ELSE IF w = "Chat" THEN "chat"
    ELSE w

\* phrase in text, both as sequences of words
Contains(text, phrase) ==
    \E i \in 0..(Len(text) - Len(phrase)) :
        SubSeq(text, i + 1, i + Len(phrase)) = phrase

IsBlockedOnAnyError(e) == TRUE

\* error_msg = str(e).lower()
\* if "blocked" in error_msg or "user is deactivated" in error_msg
IsBlocked(e) ==
    LET error_msg == [i \in DOMAIN e |-> LowerWord(e[i])] IN
    \/ Contains(error_msg, <<"blocked">>)
    \/ Contains(error_msg, <<"user", "is", "deactivated">>)

AdminOrAnyone(user_id) == TRUE

\* the negation of "if user_id not in ADMIN_USER_IDS"
IsAdmin(user_id) == user_id \in ADMIN_USER_IDS

AfterFailureNone(all_users, i) == Len(all_users) + 1

\* the loop index after the except clause has dealt with a failed send
AfterFailure(all_users, i) == i + 1

\* success_count, blocked_count, failed_count, the sends attempted so far
\* and the user store
Tally(success, blocked, failed, attempts, db) ==
    [success |-> success, blocked |-> blocked, failed |-> failed,
     attempts |-> attempts, db |-> db]

RECURSIVE BroadcastLoop(_, _, _, _)
\* for user_id in all_users, from the i-th on
BroadcastLoop(all_users, i, outcomes, t) ==
    IF i > Len(all_users) THEN t
    ELSE LET user_id == all_users[i]
             e == outcomes[user_id]
             tried == Append(t.attempts, user_id)
         IN  IF e = Sent
             THEN BroadcastLoop(all_users, i + 1, outcomes,
                      Tally(t.success + 1, t.blocked, t.failed, tried, t.db))
             ELSE IF IsBlocked(e)
             THEN BroadcastLoop(all_users, AfterFailure(all_users, i),
                      outcomes,
                      Tally(t.success, t.blocked + 1, t.failed, tried,
                            remove_user(t.db, user_id)))
             ELSE BroadcastLoop(all_users, AfterFailure(all_users, i),
                      outcomes,
                      Tally(t.success, t.blocked, t.failed + 1, tried, t.db))

Msg_admins_only == "This command is only available to administrators."

\* what a run of an administrative command did besides its Run: the sends
\* attempted, the counts reported and the user count shown (<<>>: none)
AdminRun(message, attempts, report, shown, db) ==
    [message |-> message, attempts |-> attempts, report |-> report,
     shown |-> shown, db |-> db]

\* broadcast(update, context); args is context.args
Broadcast(user_id, args, outcomes) ==
    IF ~IsAdmin(user_id)
    THEN AdminRun(Msg_admins_only, <<>>, <<>>, <<>>, user_db)
    ELSE IF args = <<>>
    THEN AdminRun("Usage", <<>>, <<>>, <<>>, user_db)
    ELSE LET all_users == get_all_user_ids(user_db)
             total_users == Len(all_users)
             t == BroadcastLoop(all_users, 1, outcomes,
                                Tally(0, 0, 0, <<>>, user_db))
         IN  IF total_users = 0
             THEN AdminRun("No users to broadcast to.", <<>>, <<>>, <<>>,
                           user_db)
             ELSE AdminRun("Broadcast Complete", t.attempts,
                           <<[success |-> t.success, blocked |-> t.blocked,
                              failed |-> t.failed,
                              attempted |-> total_users]>>,
                           <<>>, t.db)

\* users(update, context)
UsersRun(user_id) ==
    IF ~IsAdmin(user_id)
    THEN AdminRun(Msg_admins_only, <<>>, <<>>, <<>>, user_db)
    ELSE AdminRun("User Statistics", <<>>, <<>>,
                  <<Cardinality(DOMAIN user_db)>>, user_db)

\* context.args of /broadcast: none, or the words of the message
BroadcastArgs == {<<>>, <<"hello">>}

\* what the handler of an administrative command leaves in "last";
\* known and outcomes are what the run met: the ids in the store when it
\* began and what the transport did with a send to each
AdminObserved(handler, user_id, args, known, outcomes, r) ==
    Observed(handler, user_id, args, 0, Quiet(r.message))
    @@ [attempts |-> r.attempts, report |-> r.report, shown |-> r.shown,
        known |-> known, outcomes |-> outcomes]

\* commands.start
start ==
    /\ program = "handlers"
    /\ events < horizon
    /\ \E user_id \in Users :
        /\ user_db' = add_user(user_db, user_id, events + 1)
        /\ last' = Observed("start", user_id, <<>>, 0,
                            Quiet("Music Downloader Bot"))
    /\ events' = events + 1
    /\ UNCHANGED <<program, horizon, search_cache, inline_result_cache,
                   analytics, disk, store_count, menus, last_store, uses,
                   search_vars, unit_vars, task_vars, config_vars>>

\* commands.broadcast
broadcast ==
    /\ program = "handlers"
    /\ events < horizon
    /\ \E user_id \in Users, args \in BroadcastArgs,
          outcomes \in [DOMAIN user_db -> SendOutcomes] :
        LET r == Broadcast(user_id, args, outcomes) IN
        /\ user_db' = r.db
        /\ last' = AdminObserved("broadcast", user_id, args, DOMAIN user_db,
                                 outcomes, r)
    /\ events' = events + 1
    /\ UNCHANGED <<program, horizon, search_cache, inline_result_cache,
                   analytics, disk, store_count, menus, last_store, uses,
                   search_vars, unit_vars, task_vars, config_vars>>

\* commands.users
users ==
    /\ program = "handlers"
    /\ events < horizon
    /\ \E user_id \in Users :
        LET r == UsersRun(user_id) IN
        /\ user_db' = r.db
        /\ last' = AdminObserved("users", user_id, <<>>, DOMAIN user_db,
                                 <<>>, r)
    /\ events' = events + 1
    /\ UNCHANGED <<program, horizon, search_cache, inline_result_cache,
                   analytics, disk, store_count, menus, last_store, uses,
                   search_vars, unit_vars, task_vars, config_vars>>

\* the bot with an allow-list of any of the users
AdminInit ==
    /\ program = "handlers"
    /\ horizon = MaxAdminEvents
    /\ ADMIN_USER_IDS \in SUBSET Users
    /\ BotStart
    /\ SearchIdle
    /\ UnitIdle
    /\ Sequential

\* the commands that read or change the user store
AdminNext ==
    \/ start
    \/ broadcast
    \/ users

SpecAdmin == AdminInit /\ [][AdminNext]_vars

-----------------------------------------------------------------------------
(* The handlers of handlers/*.py interleaved at their awaits.  A handler   *)
(* runs from one await to the next without interruption; "last" keeps to   *)
(* the handlers that run in one piece.                                     *)

\* a handler run: pc is the await it is suspended at, "done" after its end;
\* file is the downloaded file it holds, stored_at the rank of its store
\* among the stores of its user
Task(kind, user_id, arg, at, file, stored_at) ==
    [kind |-> kind, user |-> user_id, arg |-> arg, pc |-> at, file |-> file,
     stored_at |-> stored_at]

\* what downloader.download gives a chosen result: the failure signal or a
\* small file
TaskFileSizes == {DownloadFailed, 1000000}

Suspended(kind, at) ==
    {t \in DOMAIN tasks : tasks[t].kind = kind /\ tasks[t].pc = at}

Resumed(t, at) == [tasks EXCEPT ![t].pc = at]

\* commands.search up to "await update.message.reply_text(...)"
search_begin ==
    /\ concurrent
    /\ events < horizon
    /\ Len(tasks) < MaxTasks
    /\ \E user_id \in Users, query \in Texts :
        /\ ~IgnoredText(query)
        /\ user_db' = add_user(user_db, user_id, events + 1)
        /\ tasks' = Append(tasks,
                           Task("search", user_id, query, "searching", 0, 0))
    /\ events' = events + 1
    /\ UNCHANGED <<program, horizon, search_cache, inline_result_cache,
                   analytics, disk, store_count, menus, last_store, uses,
                   last, concurrent, search_vars, config_vars, unit_vars>>

\* commands.search from the try on: the search, the store and the awaits
\* that end the handler
search_store ==
    /\ concurrent
    /\ \E t \in Suspended("search", "searching"),
          sc \in BotScInfos, yt \in BotYtInfos :
        LET user_id == tasks[t].user
            r == search(SEARCH_RESULTS_TOTAL, sc, yt)
        IN  /\ analytics' = track_search(analytics, tasks[t].arg)
            /\ IF r.raised \/ r.results = <<>>
               THEN /\ tasks' = Resumed(t, "done")
                    /\ UNCHANGED <<search_cache, store_count, menus,
                                   last_store>>
               ELSE /\ search_cache' =
                           CacheStore(search_cache, user_id, r.results)
                    /\ store_count' =
                           [store_count EXCEPT ![user_id] = @ + 1]
                    /\ last_store' =
                           [last_store EXCEPT ![user_id] = r.results]
                    /\ menus' = menus \cup
                           {Rendered(user_id,
                                CommandsPageButtons(r.results, 0))}
                    /\ tasks' = [tasks EXCEPT
                                   ![t].pc = "done",
                                   ![t].stored_at = store_count[user_id] + 1]
    /\ UNCHANGED <<program, horizon, inline_result_cache, user_db, disk,
                   events, uses, last, concurrent, search_vars, config_vars, unit_vars>>

\* inline.chosen_inline_result up to "await context.bot.send_audio(...)":
\* the cache lookup, the analytics and the download.  A failed download
\* leaves only the error edit to wait for.
chosen_begin ==
    /\ concurrent
    /\ events < horizon
    /\ Len(tasks) < MaxTasks
    /\ \E user_id \in Users, result_id \in DOMAIN inline_result_cache,
          query \in ChosenQueries, size \in TaskFileSizes :
        LET info == inline_result_cache[result_id] IN
        /\ analytics' = track_download(
                            track_inline_selection(analytics, query),
                            info.platform)
        /\ uses' = Incremented(uses, result_id)
        /\ IF size = DownloadFailed
           THEN /\ tasks' = Append(tasks, Task("chosen", user_id, result_id,
                                               "done", 0, 0))
                /\ disk' = disk
           ELSE /\ tasks' = Append(tasks, Task("chosen", user_id, result_id,
                                               "sending", FileOf(0), 0))
                /\ disk' = disk \cup {FileOf(0)}
    /\ events' = events + 1
    /\ UNCHANGED <<program, horizon, search_cache, inline_result_cache,
                   user_db, store_count, menus, last_store, last,
                   concurrent, search_vars, config_vars, unit_vars>>

\* chosen_inline_result resumed from send_audio: on to
\* "await context.bot.edit_message_media(...)", or to the except branch
chosen_sent ==
    /\ concurrent
    /\ \E t \in Suspended("chosen", "sending"), send_ok \in BOOLEAN :
        tasks' = Resumed(t, IF send_ok THEN "editing" ELSE "done")
    /\ UNCHANGED <<bot_vars, concurrent, search_vars, config_vars, unit_vars>>

\* chosen_inline_result resumed from the edit of the inline message:
\* downloader.cleanup_files(file_path); inline_result_cache.delete(result_id)
chosen_finish ==
    /\ concurrent
    /\ \E t \in Suspended("chosen", "editing") :
        /\ disk' = disk \ {tasks[t].file}
        /\ inline_result_cache' =
               InlineDeleted(inline_result_cache, tasks[t].arg)
        /\ tasks' = Resumed(t, "done")
    /\ UNCHANGED <<program, horizon, search_cache, analytics, user_db,
                   events, store_count, menus, last_store, uses, last,
                   concurrent, search_vars, config_vars, unit_vars>>

ConcurrentInit ==
    /\ program = "handlers"
    /\ horizon = MaxTasks + 1
    /\ BotStart
    /\ NoAdmins
    /\ SearchIdle
    /\ UnitIdle
    /\ concurrent = TRUE
    /\ tasks = <<>>

\* text searches under way together; they share nothing with the inline
\* handlers, which are followed on their own
SearchesNext ==
    \/ search_begin
    \/ search_store

SpecSearches == ConcurrentInit /\ [][SearchesNext]_vars

\* inline queries and chosen inline results under way together
ChoicesNext ==
    \/ inline_query
    \/ chosen_begin
    \/ chosen_sent
    \/ chosen_finish

SpecChoices == ConcurrentInit /\ [][ChoicesNext]_vars

-----------------------------------------------------------------------------
(* The event loop during a download.  The handlers are coroutines of one   *)
(* event loop: a coroutine gives the loop up at an await and nowhere else. *)
(* downloader.download(url, platform) is called without await, so the      *)
(* loop is held by the calling handler until the download returns.         *)

\* no handler is inside the call of downloader.download
LoopFree == \A t \in DOMAIN tasks : tasks[t].pc # "downloading"

\* inline.chosen_inline_result up to the call of downloader.download: the
\* cache lookup and the analytics
chosen_lookup ==
    /\ concurrent
    /\ LoopFree
    /\ events < horizon
    /\ Len(tasks) < MaxTasks
    /\ \E user_id \in Users, result_id \in DOMAIN inline_result_cache,
          query \in ChosenQueries :
        LET info == inline_result_cache[result_id] IN
        /\ analytics' = track_download(
                            track_inline_selection(analytics, query),
                            info.platform)
        /\ uses' = Incremented(uses, result_id)
        /\ tasks' = Append(tasks, Task("chosen", user_id, result_id,
                                       "downloading", 0, 0))
    /\ events' = events + 1
    /\ UNCHANGED <<program, horizon, search_cache, inline_result_cache,
                   user_db, disk, store_count, menus, last_store, last,
                   concurrent, search_vars, config_vars, unit_vars>>

\* downloader.download returns to chosen_inline_result, which goes on to
\* "await context.bot.send_audio(...)" or, without a file, to the error edit
chosen_downloaded ==
    /\ concurrent
    /\ \E t \in Suspended("chosen", "downloading"), size \in TaskFileSizes :
        IF size = DownloadFailed
        THEN /\ tasks' = Resumed(t, "done")
             /\ disk' = disk
        ELSE /\ tasks' = [tasks EXCEPT ![t].pc = "sending",
                                       ![t].file = FileOf(0)]
             /\ disk' = disk \cup {FileOf(0)}
    /\ UNCHANGED <<program, horizon, search_cache, inline_result_cache,
                   analytics, user_db, events, store_count, menus,
                   last_store, uses, last, concurrent, search_vars,
                   config_vars, unit_vars>>

\* the steps of the handlers of other events, taken when the loop is free
OtherHandlerStep ==
    /\ LoopFree
    /\ \/ inline_query
       \/ search_begin
       \/ search_store
       \/ chosen_sent
       \/ chosen_finish

BlockingNext ==
    \/ chosen_lookup
    \/ chosen_downloaded
    \/ OtherHandlerStep

SpecBlocking == ConcurrentInit /\ [][BlockingNext]_vars

-----------------------------------------------------------------------------
(* The search engine called once on arbitrary platform output *)

SearchInit ==
    /\ program = "none"
    /\ horizon = 0
    /\ BotStart
    /\ NoAdmins
    /\ UnitIdle
    /\ Sequential
    /\ n \in 1..MaxN
    /\ sc_info \in RawInfos(MaxScEntries)
    /\ yt_info \in RawInfos(MaxYtEntries)
    /\ pc = "call"
    /\ sc_accepted = <<>>
    /\ yt_accepted = <<>>
    /\ sc_queries = <<>>
    /\ yt_queries = <<>>
    /\ returned = <<>>
    /\ raised = FALSE

SearchCall ==
    /\ pc = "call"
    /\ LET r == search(n, sc_info, yt_info) IN
        /\ returned' = r.results
        /\ raised' = r.raised
        /\ sc_accepted' = r.sc_accepted
        /\ yt_accepted' = r.yt_accepted
        /\ sc_queries' = r.sc_queries
        /\ yt_queries' = r.yt_queries
    /\ pc' = "returned"
    /\ UNCHANGED <<n, sc_info, yt_info, bot_vars, unit_vars, task_vars, config_vars>>

SearchNext == SearchCall

SpecSearch == SearchInit /\ [][SearchNext]_vars

-----------------------------------------------------------------------------
(* core/downloader.py: ensure_telegram_filesize *)

\* os.path.exists(file_path) is false
Absent == 0

\* applied_bitrate None
NoBitrate == 0

BitratesAscending == <<64, 96, 128, 160>>

\* bitrates = [160, 128, 96, 64]
Bitrates == <<160, 128, 96, 64>>

BitrateSet == {Bitrates[i] : i \in 1..Len(Bitrates)}

\* limit = max_size_bytes or self.telegram_limit_bytes
Limit(max_size_bytes) ==
    IF max_size_bytes # 0 THEN max_size_bytes ELSE telegram_limit_bytes

AlreadyWithinStrict(current_size, limit) == current_size < limit

\* if current_size <= limit
AlreadyWithin(current_size, limit) == current_size <= limit

\* if new_size <= limit
NewSizeFits(new_size, limit) == new_size <= limit

KeptPartial(temps, bitrate) == temps

\* if os.path.exists(temp_path): os.remove(temp_path)
RemovedPartial(temps, bitrate) == temps \ {bitrate}

\* what one run of ffmpeg does: "ok" leaves an output of the given size,
\* "tool_error" is CalledProcessError, with or without a partial output,
\* "not_found" is FileNotFoundError
Encode(kind, size, partial) == [kind |-> kind, size |-> size, partial |-> partial]

\* output sizes on both sides of either limit
EncodeSizes == {35000000 + 10000000 * k : k \in 0..(MaxEncodeSizes - 1)}

EncodeOutcomes ==
    {Encode("ok", size, TRUE) : size \in EncodeSizes}
    \cup {Encode("tool_error", 0, partial) : partial \in BOOLEAN}
    \cup {Encode("not_found", 0, FALSE)}

\* (final_size_bytes, applied_bitrate, within_limit)
Result(size, bitrate, within_limit) ==
    [size |-> size, bitrate |-> bitrate, within_limit |-> within_limit]

\* what a call did: the bitrates tried in order, the temporary files that
\* existed when each try began, the file and temporary files it left
Did(attempts, seen, size, temps, result) ==
    [attempts |-> attempts, seen |-> seen, file_size |-> size,
     temps |-> temps, result |-> result]

ReplacedByOutput(size, new_size) == new_size

\* an output above the limit is removed (os.remove(temp_path)), never moved
\* over file_path: the file keeps its size
KeptOriginal(size, new_size) == size

AfterNotFoundNext(i) == i + 1

\* except FileNotFoundError: ... break -- no later bitrate is tried
AfterNotFound(i) == Len(Bitrates) + 1

RECURSIVE ReencodeLoop(_, _, _, _, _, _, _)
\* for bitrate in bitrates, from the i-th on
ReencodeLoop(i, size, limit, encodes, attempts, seen, temps) ==
    IF i > Len(Bitrates)
    THEN Did(attempts, seen, size, temps, Result(size, NoBitrate, FALSE))
    ELSE LET bitrate == Bitrates[i]
             o == encodes[bitrate]
             tried == Append(attempts, bitrate)
             saw == Append(seen, temps)
             written == IF o.partial THEN temps \cup {bitrate} ELSE temps
         IN  IF o.kind = "tool_error"
             THEN ReencodeLoop(i + 1, size, limit, encodes, tried, saw,
                               RemovedPartial(written, bitrate))
             ELSE IF o.kind = "not_found"
             THEN ReencodeLoop(AfterNotFound(i), size, limit, encodes, tried,
                               saw, RemovedPartial(written, bitrate))
             ELSE IF NewSizeFits(o.size, limit)
             THEN Did(tried, saw, o.size, written \ {bitrate},
                      Result(o.size, bitrate, TRUE))
             ELSE ReencodeLoop(i + 1, KeptOriginal(size, o.size), limit,
                               encodes, tried, saw, written \ {bitrate})

\* ensure_telegram_filesize(file_path, max_size_bytes)
ensure_telegram_filesize(size, temps, max_size_bytes, ffmpeg, encodes) ==
    IF size = Absent
    THEN Did(<<>>, <<>>, size, temps, Result(0, NoBitrate, FALSE))
    ELSE LET limit == Limit(max_size_bytes) IN
         IF AlreadyWithin(size, limit)
         THEN Did(<<>>, <<>>, size, temps, Result(size, NoBitrate, TRUE))
         ELSE IF ~ffmpeg
         THEN Did(<<>>, <<>>, size, temps, Result(size, NoBitrate, FALSE))
         ELSE ReencodeLoop(1, size, limit, encodes, <<>>, <<>>, temps)

\* sizes of the file handed in: none, below an overriding limit, exactly
\* the default limit, above it
OriginalSizes == {Absent, 40000000, telegram_limit_bytes, 60000000}

\* max_size_bytes: None or an override
SizeOverrides == {0, 40000000}

EnsureInit ==
    /\ program = "ensure_telegram_filesize"
    /\ horizon = 0
    /\ BotStart
    /\ NoAdmins
    /\ SearchIdle
    /\ Sequential
    /\ unit_in \in [max_size_bytes : SizeOverrides, ffmpeg : BOOLEAN,
                    encodes : [BitrateSet -> EncodeOutcomes]]
    /\ file_size \in OriginalSizes
    /\ temp_files = {}
    /\ calls = <<>>

EnsureCall ==
    /\ program = "ensure_telegram_filesize"
    /\ Len(calls) < MaxCalls
    /\ LET did == ensure_telegram_filesize(file_size, temp_files,
                      unit_in.max_size_bytes, unit_in.ffmpeg, unit_in.encodes)
       IN  /\ file_size' = did.file_size
           /\ temp_files' = did.temps
           /\ calls' = Append(calls, [before |-> file_size,
                                      attempts |-> did.attempts,
                                      seen |-> did.seen,
                                      after |-> did.file_size,
                                      result |-> did.result])
    /\ UNCHANGED <<unit_in, search_vars, config_vars, bot_vars, task_vars>>

-----------------------------------------------------------------------------
(* core/downloader.py: download and download_album *)

\* tempfile.mkdtemp() returns a directory or raises OSError
MkdtempOutcomes == {"ok", "OSError"}

\* ydl.extract_info(url, download=True): raises, returns None, or returns
\* the info dict of the downloaded media
FetchOutcomes == {"raise", "none", "info"}

\* the (file_path, track_title, artist) tuples, None written ""
Triple(file_path, track_title, artist) ==
    [file_path |-> file_path, track_title |-> track_title, artist |-> artist]

\* return None, None, None
Failure == Triple("", "", "")

\* download(url, platform): the tuple returned, or the exception raised
download(mkdtemp, fetch) ==
    IF mkdtemp = "OSError"
    THEN [raised |-> TRUE, result |-> Failure]     \* raised before the try
    ELSE IF fetch = "info"
    THEN [raised |-> FALSE,
          result |-> Triple("tmp/Title.mp3", "Title", "Artist")]
    ELSE [raised |-> FALSE, result |-> Failure]    \* except Exception

\* what becomes of one entry of a playlist: the entry is None, processing it
\* raises, its audio file does not exist, its audio file exists
TrackOutcomes == {"missing", "prepare_error", "no_file", "file"}

\* what the loop appends for the idx-th entry: a downloaded track is written
\* as its playlist index, (None, None, None) as DownloadFailed
Track(outcome, idx) ==
    IF outcome = "file" THEN <<idx>>
    ELSE IF outcome = "prepare_error" THEN <<DownloadFailed>>
    ELSE <<>>

LaterTracksLost(outcome, later) == IF outcome = "file" THEN later ELSE <<>>

\* the loop goes on to the later entries whatever became of this one
LaterTracks(outcome, later) == later

RECURSIVE TracksFrom(_, _)
\* for idx, entry in enumerate(info["entries"], 1), from idx on
TracksFrom(entries, idx) ==
    IF idx > Len(entries) THEN <<>>
    ELSE Track(entries[idx], idx)
         \o LaterTracks(entries[idx], TracksFrom(entries, idx + 1))

\* extract_info on an album URL: raises, returns None, returns a playlist
\* with entries, or returns a single media item with or without its file
AlbumInfo(kind, entries, file_exists) ==
    [kind |-> kind, entries |-> entries, file_exists |-> file_exists]

AlbumInfos ==
    {AlbumInfo("raise", <<>>, FALSE), AlbumInfo("none", <<>>, FALSE)}
    \cup {AlbumInfo("playlist", entries, FALSE) :
             entries \in SeqsUpTo(TrackOutcomes, MaxAlbumEntries)}
    \cup {AlbumInfo("single", <<>>, e) : e \in BOOLEAN}

\* download_album(url, platform): the list returned, or the exception raised
download_album(mkdtemp, info) ==
    IF mkdtemp = "OSError"
    THEN [raised |-> TRUE, result |-> <<>>]        \* raised before the try
    ELSE IF info.kind \in {"raise", "none"}
    THEN [raised |-> FALSE, result |-> <<>>]       \* except Exception
    ELSE IF info.entries # <<>>
    THEN [raised |-> FALSE, result |-> TracksFrom(info.entries, 1)]
    ELSE [raised |-> FALSE,
          result |-> IF info.file_exists THEN <<1>> ELSE <<>>]

UnitCallInit ==
    /\ horizon = 0
    /\ BotStart
    /\ NoAdmins
    /\ SearchIdle
    /\ Sequential
    /\ file_size = Absent
    /\ temp_files = {}
    /\ calls = <<>>

DownloadInit ==
    /\ program = "download"
    /\ unit_in \in [mkdtemp : MkdtempOutcomes, fetch : FetchOutcomes]
    /\ UnitCallInit

AlbumInit ==
    /\ program = "download_album"
    /\ unit_in \in [mkdtemp : MkdtempOutcomes, info : AlbumInfos]
    /\ UnitCallInit

DownloadCall ==
    /\ program = "download"
    /\ calls = <<>>
    /\ calls' = <<download(unit_in.mkdtemp, unit_in.fetch)>>
    /\ UNCHANGED <<unit_in, file_size, temp_files, search_vars, config_vars, bot_vars,
                   task_vars>>

AlbumCall ==
    /\ program = "download_album"
    /\ calls = <<>>
    /\ calls' = <<download_album(unit_in.mkdtemp, unit_in.info)>>
    /\ UNCHANGED <<unit_in, file_size, temp_files, search_vars, config_vars, bot_vars,
                   task_vars>>

DownloaderInit == EnsureInit \/ DownloadInit \/ AlbumInit

DownloaderNext == EnsureCall \/ DownloadCall \/ AlbumCall

SpecDownloader == DownloaderInit /\ [][DownloaderNext]_vars

-----------------------------------------------------------------------------
(* _show_results_page called for one page after the other *)

\* the k-th result of a search, as MusicSearchEngine.search returns it
ResultItem(k) ==
    <<"[sc] " \o ToString(k), "http://p/" \o ToString(k), "soundcloud">>

\* a stored result list of each length, a page size, and which of the two
\* functions renders: names is the number of names it unpacks a result into
PagesInit ==
    /\ program = "_show_results_page"
    /\ unit_in \in {[results |-> [k \in 1..len |-> ResultItem(k)],
                      per_page |-> per_page, names |-> names] :
                        len \in 1..MaxResults, per_page \in 1..MaxPageSize,
                        names \in {3, 4}}
    /\ UnitCallInit

\* the next page is rendered: pages 0 .. total_pages, the last of them one
\* past the end of the list
RenderPage ==
    /\ program = "_show_results_page"
    /\ Len(calls) <= TotalPages(Len(unit_in.results), unit_in.per_page)
    /\ calls' = Append(calls,
                       ShowResultsPage(unit_in.results, Len(calls),
                                       unit_in.per_page, unit_in.names))
    /\ UNCHANGED <<unit_in, file_size, temp_files, search_vars, config_vars, bot_vars,
                   task_vars>>

SpecPages == PagesInit /\ [][RenderPage]_vars

-----------------------------------------------------------------------------
(* The sending loop of _download_album on an arbitrary album *)

\* what download_album returned: one to MaxAlbumEntries tracks, each a file
\* or the failure signal; for each track whether the transport takes it and
\* whether the progress edit after it goes through
SendInit ==
    /\ program = "_download_album"
    /\ unit_in \in
          {[tracks |-> tracks, sends |-> sends, edits |-> edits] :
              tracks \in SeqsUpTo({DownloadFailed, 1000000}, MaxAlbumEntries)
                            \ {<<>>},
              sends \in [1..MaxAlbumEntries -> BOOLEAN],
              edits \in [1..MaxAlbumEntries -> BOOLEAN]}
    /\ UnitCallInit

\* lines 189-236: the counters when the final status is written
SendAlbum ==
    /\ program = "_download_album"
    /\ calls = <<>>
    /\ calls' = <<AlbumLoop(unit_in.tracks, 1,
                            [k \in 1..Len(unit_in.tracks) |->
                                Env(unit_in.tracks[k], unit_in.sends[k],
                                    unit_in.edits[k])],
                            0, 0, <<>>, {})>>
    /\ UNCHANGED <<unit_in, file_size, temp_files, search_vars, config_vars,
                   bot_vars, task_vars>>

SpecAlbumSend == SendInit /\ [][SendAlbum]_vars

-----------------------------------------------------------------------------
(* Properties of MusicSearchEngine.search *)

FailedQuery(info) == info.kind \in {"raise", "none", "no_entries"}

Increasing(idx) == \A i, j \in 1..Len(idx) : i < j => idx[i] < idx[j]

PrimaryAccepted ==
    [k \in 1..Len(sc_accepted) |-> ScResult(sc_info.entries[sc_accepted[k]])]

SecondaryAccepted ==
    [k \in 1..Len(yt_accepted) |-> YtResult(yt_info.entries[yt_accepted[k]])]

\* C5: when SoundCloud alone yields at least n accepted results, YouTube is
\* not queried and exactly n results come back, all tagged soundcloud.
C5_PrimarySuffices ==
    (pc = "returned" /\ Len(sc_accepted) >= n) =>
        /\ ~raised
        /\ yt_queries = <<>>
        /\ Len(returned) = n
        /\ \A i \in 1..Len(returned) : returned[i][3] = "soundcloud"

C5_Witness ==
    /\ pc = "returned"
    /\ n = 2
    /\ Len(sc_accepted) = 2
    /\ Len(returned) = 2

\* C6: when SoundCloud yields p < n accepted results, YouTube is queried
\* exactly once, for exactly n - p results.
C6_ExactShortfall ==
    (pc = "returned" /\ Len(sc_accepted) < n) =>
        /\ sc_queries = <<n>>
        /\ yt_queries = <<n - Len(sc_accepted)>>

C6_Witness ==
    /\ pc = "returned"
    /\ Len(sc_accepted) = 1
    /\ n = 3
    /\ yt_queries = <<2>>

\* C7 (as stated): the returned list is all accepted SoundCloud results in
\* platform order followed by all accepted YouTube results in platform order.
C7_AllAcceptedReturned ==
    pc = "returned" =>
        returned = PrimaryAccepted \o SecondaryAccepted

\* C7 (amended): the returned list is the first n elements of the accepted
\* SoundCloud results in platform order followed by the accepted YouTube
\* results in platform order, each tagged with its platform; nothing is
\* re-ranked or deduplicated.
C7_OrderedAndCapped ==
    pc = "returned" =>
        /\ Increasing(sc_accepted)
        /\ Increasing(yt_accepted)
        /\ returned = Take(PrimaryAccepted \o SecondaryAccepted, n)
        /\ \A i \in 1..Len(returned) :
              returned[i][3] = IF i <= Len(sc_accepted) THEN "soundcloud"
                               ELSE "youtube"

\* two SoundCloud results followed by one YouTube result for n = 3, the
\* YouTube one being the same track as the first SoundCloud one
C7_Witness ==
    /\ pc = "returned"
    /\ n = 3
    /\ Len(sc_accepted) = 2
    /\ Len(yt_accepted) = 1
    /\ Len(returned) = 3
    /\ returned[1][2] = returned[3][2]

\* C8: a failed platform query counts as zero results and never aborts the
\* search: search never raises, a failed SoundCloud query leaves YouTube
\* queried for the full count, and two failed or empty platforms give [].
C8_FailuresAreZeroResults ==
    pc = "returned" =>
        /\ ~raised
        /\ FailedQuery(sc_info) =>
              /\ sc_accepted = <<>>
              /\ yt_queries = <<n>>
              /\ returned = Take(SecondaryAccepted, n)
        /\ (Len(sc_accepted) < n /\ FailedQuery(yt_info)) =>
              /\ yt_accepted = <<>>
              /\ returned = PrimaryAccepted
        /\ (sc_accepted = <<>> /\ yt_accepted = <<>>) => returned = <<>>

C8_Witness ==
    /\ pc = "returned"
    /\ sc_info.kind = "raise"
    /\ yt_info.kind = "entries"
    /\ Len(returned) = 2

\* C9: only entries with a non-empty title and a resolvable URL are
\* accepted; an entry whose title is missing or empty, or that has no URL,
\* is dropped.
C9_OnlyTitledEntriesAccepted ==
    LET HasTitleAndUrl(e) ==
            /\ e.present
            /\ e.has_title
            /\ e.title # ""
            /\ EntryUrl(e) # ""
    IN  pc = "returned" =>
            /\ \A k \in 1..Len(sc_accepted) :
                  HasTitleAndUrl(sc_info.entries[sc_accepted[k]])
            /\ \A k \in 1..Len(yt_accepted) :
                  HasTitleAndUrl(yt_info.entries[yt_accepted[k]])

-----------------------------------------------------------------------------
(* Properties of the button handlers *)

SearchAgainMessages ==
    {Msg_track_not_found, Msg_album_not_found, Msg_invalid, Msg_expired}

\* the last event was a button press handled by the program
Pressed == last.handler = "button"

\* the result list cached for the user who pressed, [] without an entry
PresserResults ==
    IF CacheHas(last.user) THEN search_cache[last.user] ELSE <<>>

\* the payloads that select the track or album with index i: download_<i>,
\* album_<i> and the bare <i> of the older menus
SelectionOf(i) ==
    {Str_download_ \o IntChars(i), Str_album_ \o IntChars(i), IntChars(i)}

\* C1: once the text-search handler has stored results for a user, the
\* user's press of download_<i>, i within the list, invokes the downloader
\* with the URL and platform of the i-th cached result.
C1_DownloadButtonStartsDownload ==
    \A i \in 0..(Len(PresserResults) - 1) :
        (/\ Pressed
         /\ program = "handlers"
         /\ last.data = Str_download_ \o IntChars(i))
        => last.downloads = <<[url |-> PresserResults[i + 1][2],
                               platform |-> PresserResults[i + 1][3]]>>

\* C2: a track or album selection by a user without a cache entry, or with
\* an index >= the length of the entry, ends in a "search again" message:
\* no download, no analytics change, no exception out of the handler.
C2_StaleSelectionSearchAgain ==
    \A i \in SelectionIndices :
        (/\ Pressed
         /\ last.data \in SelectionOf(i)
         /\ (~CacheHas(last.user) \/ i >= Len(PresserResults)))
        => /\ last.message \in SearchAgainMessages
           /\ last.downloads = <<>>
           /\ ~last.analytics_changed
           /\ ~last.exception

\* a press of download_<L> by a user whose cached list has L results
C2_Witness ==
    /\ Pressed
    /\ program = "handlers"
    /\ CacheHas(last.user)
    /\ last.data = Str_download_ \o IntChars(Len(PresserResults))
    /\ last.message = Msg_track_not_found

\* C3: a track or album button rendered for a search that a newer search
\* of the same user has replaced is answered with "search again" and
\* starts no download.
C3_StaleButtonNeverDownloads ==
    (/\ Pressed
     /\ \E i \in SelectionIndices : last.data \in SelectionOf(i)
     /\ last.from_gen # 0
     /\ last.from_gen < store_count[last.user])
    => /\ last.downloads = <<>>
       /\ last.message \in SearchAgainMessages

\* C4: button_callback answers a malformed payload with "search again",
\* logs nothing at error level and lets no exception out.
C4_MalformedPayloadIsNormal ==
    (/\ Pressed
     /\ program = "handlers"
     /\ last.data \in MalformedPayloads)
    => /\ last.message \in SearchAgainMessages
       /\ ~last.error_logged
       /\ ~last.exception

\* C10: on the delivery paths of the handlers no file larger than the
\* downloader's telegram_limit_bytes is handed to the transport.
C10_OversizedNeverHanded ==
    program = "handlers" =>
        \A k \in 1..Len(last.handed) : last.handed[k] <= telegram_limit_bytes

-----------------------------------------------------------------------------
(* Properties of ensure_telegram_filesize *)

\* the calls of ensure_telegram_filesize made so far
EnsureCalls ==
    IF program = "ensure_telegram_filesize" THEN 1..Len(calls) ELSE {}

\* the limit the calls compare with
CallLimit == Limit(unit_in.max_size_bytes)

\* the call was made on an existing file above the limit, ffmpeg at hand
Oversized(c) == c.before # Absent /\ c.before > CallLimit /\ unit_in.ffmpeg

\* re-encoding at this bitrate yields an output within the limit
FitsAt(bitrate) ==
    /\ unit_in.encodes[bitrate].kind = "ok"
    /\ unit_in.encodes[bitrate].size <= CallLimit

\* C11: on an oversized file the bitrates are tried in the order 160, 128,
\* 96, 64 and the first whose output is within the limit ends the call: the
\* output replaces the file, no lower bitrate is tried and (that size, that
\* bitrate, true) is returned; whenever within_limit is true the reported
\* size is <= the limit and is the size of the file left at file_path.
C11_FirstFittingBitrate ==
    \A k \in EnsureCalls :
        LET c == calls[k]
            order == <<160, 128, 96, 64>>
            tried == Len(c.attempts)
        IN
        /\ Oversized(c) =>
              /\ tried \in 1..Len(order)
              /\ \A i \in 1..tried : c.attempts[i] = order[i]
              /\ \A i \in 1..tried :
                    FitsAt(order[i]) =>
                        /\ i = tried
                        /\ c.result = Result(unit_in.encodes[order[i]].size,
                                             order[i], TRUE)
                        /\ c.after = unit_in.encodes[order[i]].size
              /\ (/\ ~FitsAt(c.attempts[tried])
                  /\ unit_in.encodes[c.attempts[tried]].kind # "not_found")
                 => tried = Len(order)
        /\ c.result.within_limit =>
              /\ c.result.size <= CallLimit
              /\ c.result.size = c.after

\* 160 kbps is still too large, 128 kbps fits, nothing lower is tried
C11_Witness ==
    /\ program = "ensure_telegram_filesize"
    /\ calls # <<>>
    /\ Oversized(calls[1])
    /\ calls[1].attempts = <<160, 128>>
    /\ unit_in.encodes[160].kind = "ok"
    /\ calls[1].result.bitrate = 128
    /\ calls[1].result.within_limit

\* C12: when every bitrate still gives a file above the limit, the call
\* returns within_limit = false, reports the smallest size any re-encode
\* reached and leaves that smallest re-encoded file at file_path.
C12_SmallestVersionKept ==
    \A k \in EnsureCalls :
        LET c == calls[k]
            sizes == {unit_in.encodes[b].size : b \in BitrateSet}
            smallest == CHOOSE x \in sizes : \A y \in sizes : x <= y
        IN  (/\ Oversized(c)
             /\ \A b \in BitrateSet :
                   /\ unit_in.encodes[b].kind = "ok"
                   /\ unit_in.encodes[b].size > CallLimit)
            => /\ ~c.result.within_limit
               /\ c.result.size = smallest
               /\ c.after = smallest

\* C13: a call on an existing file already within the limit re-encodes
\* nothing, leaves the file as it is and returns (size, None, true); the
\* call after it returns the same.
C13_CompliantFileUntouched ==
    \A k \in EnsureCalls :
        LET c == calls[k] IN
        (c.before # Absent /\ c.before <= CallLimit) =>
            /\ c.attempts = <<>>
            /\ c.after = c.before
            /\ c.result = Result(c.before, NoBitrate, TRUE)
            /\ (k > 1 /\ calls[k - 1].before = c.before)
                  => c.result = calls[k - 1].result

\* two calls on a file whose size is exactly the limit
C13_Witness ==
    /\ program = "ensure_telegram_filesize"
    /\ Len(calls) = 2
    /\ calls[1].before = CallLimit
    /\ calls[2].result = Result(CallLimit, NoBitrate, TRUE)

\* C14: a re-encode that fails with a tool error has its partial output
\* removed before the next bitrate is tried, and no per-bitrate temporary
\* file is left when ensure_telegram_filesize returns.
C14_NoTemporaryFileLeft ==
    /\ program = "ensure_telegram_filesize" => temp_files = {}
    /\ \A k \in EnsureCalls :
          \A i \in 1..Len(calls[k].seen) : calls[k].seen[i] = {}

\* a re-encode failed leaving a partial output and another bitrate was tried
C14_Witness ==
    /\ program = "ensure_telegram_filesize"
    /\ calls # <<>>
    /\ Len(calls[1].attempts) >= 2
    /\ unit_in.encodes[160] = Encode("tool_error", 0, TRUE)

-----------------------------------------------------------------------------
(* Properties of the delivery handlers *)

\* C15: every file a download produced is deleted by the end of the handler
\* that asked for it, whether the delivery went through, was rejected by
\* the transport or failed half-way: between handlers no file is on disk.
C15_NoDownloadedFileSurvives ==
    (program = "handlers" /\ ~concurrent) => disk = {}

\* C18: once a chosen_inline_result run has read the Inline Result Cache
\* entry of an identifier, whatever became of its download and delivery, no
\* later run for the same identifier finds the entry and downloads again.
C18_InlineEntryConsumedOnce ==
    (program = "handlers" /\ ~concurrent) =>
        \A result_id \in DOMAIN uses : uses[result_id] <= 1

-----------------------------------------------------------------------------
(* Properties of download and download_album *)

\* C16: download never raises to its caller: a failure gives the failure
\* signal (None, None, None), a success a non-empty file path with title
\* and artist.
C16_DownloadNeverRaises ==
    (program = "download" /\ calls # <<>>) =>
        /\ ~calls[1].raised
        /\ \/ calls[1].result = Failure
           \/ /\ calls[1].result.file_path # ""
              /\ calls[1].result.track_title # ""
              /\ calls[1].result.artist # ""

\* C17: a track of an album that fails (missing entry, processing error or
\* no output file) keeps no later track from being returned: the tracks
\* whose files exist all come back, in playlist order; an album URL that
\* resolves to a single downloaded media item gives a one-element list.
C17_AlbumToleratesTrackFailures ==
    (/\ program = "download_album"
     /\ calls # <<>>
     /\ unit_in.mkdtemp = "ok")
    => LET info == unit_in.info
           result == calls[1].result
           got == SelectSeq(result, LAMBDA x : x # DownloadFailed)
       IN  /\ ~calls[1].raised
           /\ (info.kind = "playlist" /\ info.entries # <<>>) =>
                 /\ Increasing(got)
                 /\ {got[i] : i \in 1..Len(got)}
                       = {i \in 1..Len(info.entries) : info.entries[i] = "file"}
           /\ (info.kind = "single" /\ info.file_exists) => Len(result) = 1

\* a failed first track followed by a track that is returned
C17_Witness ==
    /\ program = "download_album"
    /\ calls # <<>>
    /\ unit_in.mkdtemp = "ok"
    /\ unit_in.info.kind = "playlist"
    /\ unit_in.info.entries = <<"prepare_error", "no_file", "file">>
    /\ calls[1].result = <<DownloadFailed, 3>>

-----------------------------------------------------------------------------
(* Properties of the interleaved handlers *)

\* C19: of two chosen_inline_result runs for the same result identifier
\* that are under way at the same time, at most one has read the cache
\* entry and downloaded.
C19_ConcurrentChoiceUsedOnce ==
    \A t1, t2 \in DOMAIN tasks :
        (/\ t1 # t2
         /\ tasks[t1].kind = "chosen"
         /\ tasks[t2].kind = "chosen"
         /\ tasks[t1].arg = tasks[t2].arg)
        => ~(tasks[t1].pc # "done" /\ tasks[t2].pc # "done")

\* C20: however the text searches interleave, the Result Cache has an entry
\* exactly for the users with a store, and the entry of a user is the
\* complete result list of the store of that user that ran last: never a
\* merge, never changed by a store of another user.
C20_LastStoreWins ==
    \A u \in Users :
        IF store_count[u] = 0 THEN ~CacheHas(u)
        ELSE CacheHas(u) /\ search_cache[u] = last_store[u]

\* two searches of one user under way together, the one begun first
\* storing last, with a different list; another user has an entry too
C20_Witness ==
    /\ concurrent
    /\ \E t1, t2 \in DOMAIN tasks :
          /\ t1 < t2
          /\ tasks[t1].kind = "search"
          /\ tasks[t2].kind = "search"
          /\ tasks[t1].user = tasks[t2].user
          /\ tasks[t2].stored_at = 1
          /\ tasks[t1].stored_at = 2
          /\ Len(search_cache[tasks[t1].user]) = 1

-----------------------------------------------------------------------------
(* Properties of the paginated menu *)

\* the pages rendered so far, as page numbers
RenderedPages ==
    IF program = "_show_results_page" THEN 0..(Len(calls) - 1) ELSE {}

\* ceil(L / P): the least number of pages of P results that hold L results
PageCount ==
    LET L == Len(unit_in.results)
        P == unit_in.per_page
    IN  CHOOSE c \in 0..L : c * P >= L /\ (c - 1) * P < L

\* the buttons that select the result with absolute index i
SelectionButtons(i) == {Str_download_ \o IntChars(i), Str_album_ \o IntChars(i)}

\* C21: once pages 0 .. ceil(L/P)-1 of a list of L results have been
\* rendered with page size P, every result index 0 .. L-1 is shown on
\* exactly one of them, the k-th button of page p selects the absolute
\* index p*P + k, and every page indicator reports ceil(L/P) pages.
C21_EveryResultOnOnePage ==
    (program = "_show_results_page" /\ Len(calls) >= PageCount) =>
        LET L == Len(unit_in.results)
            P == unit_in.per_page
            pages == 0..(PageCount - 1)
            shows(p, i) ==
                \E k \in DOMAIN calls[p + 1].tracks :
                    calls[p + 1].tracks[k] \in SelectionButtons(i)
        IN  /\ \A i \in 0..(L - 1) :
                  Cardinality({p \in pages : shows(p, i)}) = 1
            /\ \A p \in pages :
                  /\ \A k \in DOMAIN calls[p + 1].tracks :
                        calls[p + 1].tracks[k]
                            \in SelectionButtons(p * P + k - 1)
                  /\ calls[p + 1].indicator = <<p + 1, PageCount>>

\* C22: a rendered menu of page p has the navigation row [previous,]
\* indicator [, next]: 'previous' exactly when p > 0, with payload
\* page_<p-1>; 'next' exactly when page p+1 exists, that is p is before the
\* last page, with payload page_<p+1>.
C22_NavigationControls ==
    \A p \in RenderedPages :
        calls[p + 1].raised = "" =>
            calls[p + 1].nav =
                (IF p > 0 THEN <<Str_page_ \o IntChars(p - 1)>> ELSE <<>>)
                \o <<Str_page_info>>
                \o (IF p + 1 <= PageCount - 1
                    THEN <<Str_page_ \o IntChars(p + 1)>> ELSE <<>>)

\* the middle one of three pages, with both controls, and the last page
\* after it, with 'previous' alone
C22_Witness ==
    /\ program = "_show_results_page"
    /\ unit_in.names = 3
    /\ PageCount = 3
    /\ Len(calls) = 3
    /\ calls[2].nav = <<Str_page_ \o <<"0">>, Str_page_info,
                        Str_page_ \o <<"2">>>>
    /\ calls[3].nav = <<Str_page_ \o <<"1">>, Str_page_info>>

\* C23: a press of page_<p>, 0 <= p < ceil(L/P), by a user whose cached
\* list has L results is answered with the re-rendered menu of page p; it
\* is not dropped with nothing shown and an error logged.
C23_PagePressRendersPage ==
    \A p \in 0..SEARCH_RESULTS_TOTAL :
        (/\ Pressed
         /\ program = "handlers"
         /\ last.data = Str_page_ \o IntChars(p)
         /\ CacheHas(last.user)
         /\ p * RESULTS_PER_PAGE < Len(PresserResults))
        => /\ last.message = "Choose a track to download:"
           /\ ~last.error_logged
           /\ ~last.exception

-----------------------------------------------------------------------------
(* Properties of the administrative commands *)

\* the last event was a broadcast of a message by an administrator
Broadcasted ==
    /\ last.handler = "broadcast"
    /\ last.user \in ADMIN_USER_IDS
    /\ last.data # <<>>

\* the send errors that mean the user blocked the bot or is deactivated
BlockedOutcomes ==
    {<<"Forbidden:", "bot", "was", "blocked", "by", "the", "user">>,
     <<"Forbidden:", "user", "is", "deactivated">>}

\* C24: whatever the outcome of each send, an administrator's broadcast
\* attempts exactly one send to every user id that was in the store when it
\* began, to no other id, and, with at least one recipient, reports counts
\* with success + blocked + failed = the number of recipients.
C24_EveryRecipientAttempted ==
    Broadcasted =>
        /\ \A u \in last.known :
              Cardinality({k \in DOMAIN last.attempts :
                              last.attempts[k] = u}) = 1
        /\ \A k \in DOMAIN last.attempts : last.attempts[k] \in last.known
        /\ last.known # {} =>
              /\ Len(last.report) = 1
              /\ last.report[1].success + last.report[1].blocked
                    + last.report[1].failed = Cardinality(last.known)

\* the send to the first of two recipients failed, the second was attempted
C24_Witness ==
    /\ Broadcasted
    /\ Len(last.attempts) = 2
    /\ last.outcomes[last.attempts[1]] # <<>>
    /\ last.report[1].failed + last.report[1].blocked >= 1

\* C25: a broadcast removes from the user store exactly the recipients
\* whose send failed as blocked or deactivated and leaves every other
\* record as it was; the report counts the sends that succeeded, those
\* classified blocked-or-deactivated and the other failures.
C25_OnlyBlockedRemoved ==
    [][(/\ last'.handler = "broadcast"
        /\ last'.user \in ADMIN_USER_IDS
        /\ last'.data # <<>>)
       => LET out == last'.outcomes
              gone == {u \in DOMAIN user_db : out[u] \in BlockedOutcomes}
              fine == {u \in DOMAIN user_db : out[u] = <<>>}
          IN  /\ DOMAIN user_db' = DOMAIN user_db \ gone
              /\ \A u \in DOMAIN user_db' : user_db'[u] = user_db[u]
              /\ DOMAIN user_db # {} =>
                    last'.report =
                        <<[success |-> Cardinality(fine),
                           blocked |-> Cardinality(gone),
                           failed |-> Cardinality(DOMAIN user_db)
                                        - Cardinality(fine)
                                        - Cardinality(gone),
                           attempted |-> Cardinality(DOMAIN user_db)]>>
      ]_vars

\* two known users of whom one has blocked the bot: one success, one
\* blocked, no other failure, and one record left
C25_Witness ==
    /\ Broadcasted
    /\ Cardinality(last.known) = 2
    /\ last.report = <<[success |-> 1, blocked |-> 1, failed |-> 0,
                        attempted |-> 2]>>
    /\ Cardinality(DOMAIN user_db) = 1

\* C26: a broadcast or users command from a user id outside the allow-list
\* attempts no send, reports nothing, shows no user count and leaves the
\* user store as it was.
C26_AdminCommandsRestricted ==
    [][(/\ last'.handler \in {"broadcast", "users"}
        /\ last'.user \notin ADMIN_USER_IDS)
       => /\ last'.attempts = <<>>
          /\ last'.report = <<>>
          /\ last'.shown = <<>>
          /\ last'.message = Msg_admins_only
          /\ user_db' = user_db
      ]_vars

\* a broadcast with a message from a user outside a non-empty allow-list,
\* with two users in the store
C26_Witness ==
    /\ last.handler = "broadcast"
    /\ last.user \notin ADMIN_USER_IDS
    /\ ADMIN_USER_IDS # {}
    /\ last.data # <<>>
    /\ Cardinality(last.known) = 2

-----------------------------------------------------------------------------
(* Properties of the user store and the analytics counters *)

\* C28: after the handler of a start command, a text search, a button
\* press, an inline query or a chosen inline result, the store holds a
\* record of the user whose last-seen value is that of this interaction
\* and whose first-seen value is the one it had before, if it had one.
C28_EveryInteractionRecorded ==
    [][(/\ program = "handlers"
        /\ last'.handler \in {"start", "search", "button", "inline_query",
                              "chosen_inline_result"}
        /\ ~(last'.handler = "search" /\ last'.message = ""))
       => LET u == last'.user IN
          /\ u \in DOMAIN user_db'
          /\ user_db'[u].last_active = events'
          /\ u \in DOMAIN user_db =>
                user_db'[u].joined_at = user_db[u].joined_at
      ]_vars

\* the value of a defaultdict(int) counter, 0 for a key never incremented
CountOf(counts, key) == IF key \in DOMAIN counts THEN counts[key] ELSE 0

\* no counter of b is below its value in a
NoCounterBelow(a, b) ==
    /\ b.total_searches >= a.total_searches
    /\ b.total_downloads >= a.total_downloads
    /\ \A key \in DOMAIN a.popular_queries :
          CountOf(b.popular_queries, key) >= a.popular_queries[key]
    /\ \A key \in DOMAIN a.platform_usage :
          CountOf(b.platform_usage, key) >= a.platform_usage[key]
    /\ \A key \in DOMAIN a.inline_selections :
          CountOf(b.inline_selections, key) >= a.inline_selections[key]

\* C29: no handler run lowers the search count, the download count, a
\* per-platform download count, a per-query count or an inline-selection
\* count.
C29_CountersNeverDecrease ==
    [][NoCounterBelow(analytics, analytics')]_vars

\* a second search, for another query, after a first one was counted
C29_Witness ==
    /\ analytics.total_searches = 2
    /\ Cardinality(DOMAIN analytics.popular_queries) = 2

-----------------------------------------------------------------------------
(* Properties of the inline query handler *)

\* C30: an inline query of fewer than 3 characters queries no platform,
\* stores no Inline Result Cache entry, changes no analytics counter and
\* sends no answer; one of 3 or more characters queries a platform.
C30_ShortInlineQueryIgnored ==
    [][(~concurrent /\ last'.handler = "inline_query") =>
          IF Len(last'.data) < 3
          THEN /\ last'.searches = <<>>
               /\ inline_result_cache' = inline_result_cache
               /\ analytics' = analytics
               /\ last'.message = ""
          ELSE last'.searches # <<>>
      ]_vars

\* a two-character query that follows a query of exactly three characters
\* whose results were stored
C30_Witness ==
    /\ last.handler = "inline_query"
    /\ Len(last.data) = 2
    /\ \E id \in DOMAIN inline_result_cache :
          Len(inline_result_cache[id].query) = 3

-----------------------------------------------------------------------------
(* Properties of the event loop *)

\* a handler is inside downloader.download
Downloading == \E t \in DOMAIN tasks : tasks[t].pc = "downloading"

\* C27: while the download of one handler runs, the handler of another
\* inbound event that is waiting to be handled (another user's inline
\* query or text search, the next step of a suspended handler) is able to
\* take a step.
C27_DownloadDoesNotBlock ==
    (Downloading /\ events < horizon /\ Len(tasks) < MaxTasks)
        => ENABLED OtherHandlerStep

-----------------------------------------------------------------------------
(* The size of the list search returns *)

\* C31: for every desired count n >= 1 and any raw output of the two
\* platforms, a platform returning more entries than were requested
\* included, search returns at most n results.
C31_AtMostNResults ==
    pc = "returned" => Len(returned) <= n

\* SoundCloud answers with more accepted entries than were asked for, and
\* YouTube with more than the remainder it was asked for
C31_Witness ==
    /\ pc = "returned"
    /\ \/ Len(sc_accepted) > n
       \/ /\ yt_queries # <<>>
          /\ Len(yt_accepted) > yt_queries[1]
    /\ Len(returned) = n

-----------------------------------------------------------------------------
(* Selections counted from the end of the list *)

\* the payloads that decode to the negative index i
NegativeSelections ==
    {Str_download_ \o IntChars(i) : i \in {k \in SelectionIndices : k < 0}}
    \cup {IntChars(i) : i \in {k \in SelectionIndices : k < 0}}

\* C32: a button payload that decodes to a negative index never starts a
\* download, whatever the user's cached list is.
C32_NegativeIndexNeverDownloads ==
    (Pressed /\ last.data \in NegativeSelections) => last.downloads = <<>>

-----------------------------------------------------------------------------
(* What a text search without results leaves alone *)

\* the step is a text search with this outcome
SearchStep == last'.handler = "search" /\ events' = events + 1

-----------------------------------------------------------------------------
(* The totals of the analytics counters *)

RECURSIVE SumOfCounts(_)
\* the sum of the values of a counter dictionary
SumOfCounts(counts) ==
    IF DOMAIN counts = {} THEN 0
    ELSE LET key == CHOOSE k \in DOMAIN counts : TRUE IN
         counts[key]
         + SumOfCounts([k \in DOMAIN counts \ {key} |-> counts[k]])

\* C34: in every reachable state total_downloads equals the sum of the
\* per-platform download counts and total_searches equals the sum of the
\* per-query search counts.
C34_TotalsAreSums ==
    /\ analytics.total_downloads = SumOfCounts(analytics.platform_usage)
    /\ analytics.total_searches = SumOfCounts(analytics.popular_queries)

\* one search and one download have been counted
C34_Witness ==
    /\ analytics.total_searches = 1
    /\ analytics.total_downloads = 1
    /\ DOMAIN analytics.platform_usage # {}

-----------------------------------------------------------------------------
(* Page numbers outside the list *)

\* the page numbers the navigation payloads of the presses carry
PressedPages == (0 - 1)..1

\* C35: a press of page_<p> with p outside 0..ceil(L/P)-1 for the user's
\* cached list of L results never renders a menu (one with zero tracks
\* and an indicator X/Y with X > Y).
C35_OutsidePageNeverRendered ==
    \A p \in PressedPages :
        (/\ Pressed
         /\ program = "handlers"
         /\ last.data = Str_page_ \o IntChars(p)
         /\ CacheHas(last.user)
         /\ (p < 0
             \/ p >= TotalPages(Len(PresserResults), RESULTS_PER_PAGE)))
        => last.message # "Choose a track to download:"

-----------------------------------------------------------------------------
(* The re-encode attempts of one ensure_telegram_filesize call *)

\* C36: ensure_telegram_filesize returns after at most four re-encode
\* attempts, each candidate bitrate tried at most once; a tool error on one
\* bitrate is followed by an attempt at the next bitrate, and a missing
\* ffmpeg binary detected during an attempt is the last attempt of the call.
C36_AtMostFourAttempts ==
    program = "ensure_telegram_filesize" =>
        \A k \in 1..Len(calls) :
            LET a == calls[k].attempts IN
            /\ Len(a) <= 4
            /\ \A i, j \in 1..Len(a) : i # j => a[i] # a[j]
            /\ \A i \in 1..Len(a) :
                  /\ (unit_in.encodes[a[i]].kind = "tool_error" /\ i < 4)
                     => Len(a) > i
                  /\ unit_in.encodes[a[i]].kind = "not_found"
                     => Len(a) = i

\* a call whose first attempt met a tool error and whose second found no
\* ffmpeg binary
C36_Witness ==
    /\ program = "ensure_telegram_filesize"
    /\ Len(calls) >= 1
    /\ calls[1].attempts = <<160, 128>>
    /\ unit_in.encodes[160].kind = "tool_error"
    /\ unit_in.encodes[128].kind = "not_found"

-----------------------------------------------------------------------------
(* What a failed size reduction leaves behind *)

\* C37: whenever ensure_telegram_filesize returns within_limit = false for
\* an existing file, the file is the unmodified original, the reported size
\* is the original size and the applied bitrate is None.
C37_FailureKeepsOriginal ==
    program = "ensure_telegram_filesize" =>
        \A k \in 1..Len(calls) :
            (calls[k].before # Absent /\ ~calls[k].result.within_limit)
            => /\ calls[k].after = calls[k].before
               /\ calls[k].result.size = calls[k].before
               /\ calls[k].result.bitrate = NoBitrate

\* all four bitrates were tried and every output was above the limit
C37_Witness ==
    /\ program = "ensure_telegram_filesize"
    /\ Len(calls) >= 1
    /\ calls[1].before = 60000000
    /\ Len(calls[1].attempts) = 4
    /\ \A b \in BitrateSet : unit_in.encodes[b].kind = "ok"
    /\ ~calls[1].result.within_limit
    /\ file_size = 60000000

-----------------------------------------------------------------------------
(* The counts of the final album status *)

\* C38: when the final status of an album is reported, successful + failed
\* equals the number of tracks download_album returned, for every pattern
\* of send failures and status-edit failures during the loop.
C38_EveryTrackCountedOnce ==
    program = "_download_album" =>
        \A k \in 1..Len(calls) :
            calls[k].successful + calls[k].failed = Len(unit_in.tracks)
====
